---------------------------- MODULE Spec2Model ----------------------------
(***************************************************************************)
(* DB48X: the loop evaluators of loops.cc (DO..UNTIL, WHILE..REPEAT,       *)
(* START/FOR..NEXT/STEP), the variable-precision decimal arithmetic of     *)
(* decimal.cc / decimal.h (add, sub, mul and the operators built on them;  *)
(* parsing and rendering; conversions; the objects in memory) and the      *)
(* state save / load callbacks of sysmenu.cc.                              *)
(*                                                                         *)
(* Spec      is the loop machine: one action per step of a loop handler,   *)
(*           with the host setting the interrupted flag asynchronously.    *)
(* SpecDec   applies the decimal operations, the parser and the renderer   *)
(*           to operands drawn from a bounded set of normalized decimals.  *)
(* SpecConv  converts decimals to machine words and fractions, and builds  *)
(*           decimal objects in memory with each constructor.              *)
(* SpecPromotion promotes real values to hardware-format decimals.         *)
(* SpecShown renders decimals as the stack shows them.                     *)
(* SpecKigit writes one kigit into a packed array of kigits.               *)
(* SpecCounted follows the raw pointers and the handles of loop::counted   *)
(*           across the calls that may allocate.                           *)
(* SpecDispatch is object::type() and object::run() on valid and invalid   *)
(*           tags.                                                         *)
(* SpecParser parses and renders the counted loops.                        *)
(* SpecFile  opens and closes nested files (file.cc).                      *)
(* SpecName  is state_name() on the stored path of the state file.         *)
(* SpecState is the state menu: saving the state to a file, loading or     *)
(*           merging a state file.                                         *)
(***************************************************************************)
EXTENDS Integers, Sequences, FiniteSets, TLC

VARIABLES
    \* ---- loop machine (loops.cc) ----
    kind,           \* which loop object is being evaluated
    pc,             \* position inside the handler
    stack,          \* rt value stack, top of stack is the LAST element
    r,              \* object::result r of the handler
    err,            \* the runtime's error slot ("none" when no error recorded)
    interrupted,    \* the flag read by interrupted()
    cnt,            \* fast path: ularge cnt
    last,           \* fast path: ularge last
    incr,           \* fast path: ularge incr
    astep,          \* algebraic_p astep / algebraic_g step ("null" or a real object)
    skip,           \* bool skip
    acnt,           \* algebraic path: cnt, as a value in halves
    alast,          \* algebraic path: last, as a value in halves
    local0,         \* rt.local(0) of a FOR loop ("none" when unset)
    \* ---- observation of the loop machine (history variables) ----
    stack0,         \* the value stack when the loop object was evaluated
    bodyRuns,       \* number of times body->evaluate() was called
    condRuns,       \* number of times cond->evaluate() was called
    iter,           \* events of the current iteration, in order
    truth,          \* last truth value popped by condition(): "none", TRUE, FALSE
    sawInt,         \* the loop head found interrupted() true
    refCnt,         \* counter of the same loop run on the algebraic path (halves)
    refDiverged,    \* that run and this one disagreed on leaving the loop
    switched,       \* the fast path handed over to the algebraic path
    \* ---- decimal machine (decimal.cc) ----
    dx, dy,         \* operands
    dprec,          \* Settings.Precision()
    dop,            \* operation applied ("none" before any)
    dres,           \* its result, when a decimal
    dint,           \* its result, when an integer
    dtext,          \* its result, when a text
    \* ---- state menu (sysmenu.cc) ----
    Settings,       \* the process-wide settings
    saved,          \* state_save_callback: settings saved
    sop,            \* the callback running: "none", "save", "load", "merge"
    spc,            \* position inside the callback
    sret,           \* value the callback returned ("none" before)
    why,            \* why the callback returned
    globals,        \* rt.variables(0): the home directory, name and object
    stateFile,      \* the name kept by set_reset_state_file
    fileOut,        \* what was rendered to the file, and under which settings
    sidx,           \* state_save_callback: variables done, then uint depth
    editor,         \* the text editor of the runtime
    sys0,           \* settings, stack and home directory before the callback
    \* ---- decimal objects in memory (decimal.h) ----
    heap,           \* the payload bytes of the object built, and those after it
    reserved,       \* the bytes required_memory asked for the object
    heap0,          \* the bytes as they were before the last write
    kidx,           \* kigit(base, index, value): index
    kval,           \* kigit(base, index, value): value
    \* ---- raw pointers and handles of loop::counted (loops.cc) ----
    ptrs,           \* position, status of each raw pointer, stale reads
    \* ---- dispatch on the type of an object (object.h) ----
    disp,           \* the last call: function, tag, what it did and returned
    \* ---- parser and renderer of the counted loops (loops.cc) ----
    prs,            \* the last parse: handler, text, result, loop made
    \* ---- files (file.cc) ----
    fs,             \* file::current, the file objects, those alive in order
    \* ---- state_name (sysmenu.cc) ----
    sn              \* the last call: path stored, static buffer, string

loopVars == <<kind, pc, stack, r, err, interrupted, cnt, last, incr, astep,
              skip, acnt, alast, local0>>
histVars == <<stack0, bodyRuns, condRuns, iter, truth, sawInt,
              refCnt, refDiverged, switched>>
decVars  == <<dx, dy, dprec, dop, dres, dint, dtext>>
sysVars  == <<Settings, saved, sop, spc, sret, why, globals, stateFile,
              fileOut, sidx, editor, sys0>>
objVars  == <<heap, reserved, heap0, kidx, kval>>
extVars  == <<ptrs, disp, prs, fs, sn>>
vars     == <<loopVars, histVars, decVars, sysVars, objVars, extVars>>

-----------------------------------------------------------------------------
(* Bounds *)

\* Largest value of the machine word `ularge`, scaled down from 2^64 - 1 so
\* that the wrap-around of `cnt += incr` is within reach of the model.
UlargeMax == 5

\* Cap on the number of body evaluations followed in one loop.
MaxRuns == 7

UlargeMod == UlargeMax + 1

-----------------------------------------------------------------------------
(* Objects on the value stack.  v is the magnitude: the integer itself for *)
(* integer / neg_integer, a number of halves for decimal / neg_decimal.    *)

Obj(t, n)  == [ty |-> t, v |-> n]
IntObj(n)  == Obj("integer", n)
NegInt(n)  == Obj("neg_integer", n)
DecObj(h)  == Obj("decimal", h)
NegDec(h)  == Obj("neg_decimal", h)
TextObj    == Obj("text", 0)
NullObj    == Obj("null", 0)

is_real(o) == o.ty \in {"integer", "neg_integer", "decimal", "neg_decimal"}

\* Numeric value of a real object, in halves
Halves(o) ==
    CASE o.ty = "integer"     -> 2 * o.v
      [] o.ty = "neg_integer" -> -(2 * o.v)
      [] o.ty = "decimal"     -> o.v
      [] o.ty = "neg_decimal" -> -(o.v)
      [] OTHER                -> 0

\* object::as_truth: 0 or 1 for a logical value, -1 (type error) otherwise
as_truth(o) ==
    IF o.ty = "integer" THEN (IF o.v = 0 THEN 0 ELSE 1) ELSE -1

\* rt.stack(i): the i-th object from the top, "null" when there is none
StackAt(s, i) == IF Len(s) > i THEN s[Len(s) - i] ELSE NullObj
\* rt.drop(n)
Drop(s, n)    == SubSeq(s, 1, Len(s) - n)
\* rt.push(o); pushing "nothing" (NullObj) leaves the stack alone
Push(s, o)    == IF o = NullObj THEN s ELSE Append(s, o)

\* The real object holding a value given in halves
RealObj(h) ==
    IF h % 2 = 0
    THEN (IF h >= 0 THEN IntObj(h \div 2) ELSE NegInt((-h) \div 2))
    ELSE (IF h >= 0 THEN DecObj(h) ELSE NegDec(-h))

-----------------------------------------------------------------------------
(* The loop machine: inputs *)

CondKinds    == {"DoUntil", "WhileRepeat"}
CountedKinds == {"StartNext", "StartStep", "ForNext", "ForStep"}
LoopKinds    == CondKinds \cup CountedKinds

\* counted(body, stepping, named) as called by the four EVAL_BODY handlers
stepping(k) == k \in {"StartStep", "ForStep"}
named(k)    == k \in {"ForNext", "ForStep"}

Results == {"OK", "ERROR"}

\* Objects found on the stack when a loop is evaluated
Operands == {IntObj(n) : n \in 0..UlargeMax}
            \cup {NegInt(1), DecObj(3), TextObj}

InitStacks ==
    {<<>>} \cup {<<f>> : f \in Operands}
           \cup {<<s, f>> : s \in Operands, f \in Operands}
           \cup {<<TextObj, s, f>> : s \in {IntObj(1), TextObj}, f \in Operands}

\* What the evaluation of a condition may leave on the stack (NullObj: nothing)
CondPushes == {IntObj(0), IntObj(1), TextObj, NullObj}

\* What the evaluation of the body of a STEP loop may leave on the stack
StepPushes == {IntObj(1), IntObj(3), NegInt(1), DecObj(1), TextObj, NullObj}

BodyPushes(k) == IF stepping(k) THEN StepPushes ELSE {NullObj}

\* rt.unlocals(1) when ForNext::counted returns
LocalAtExit == IF named(kind) THEN NullObj ELSE local0

\* The decimal machine at rest while a loop runs
InitDecIdle ==
    /\ dx = [neg |-> FALSE, exp |-> 0, k |-> <<>>]
    /\ dy = [neg |-> FALSE, exp |-> 0, k |-> <<>>]
    /\ dprec = 3
    /\ dop = "none"
    /\ dres = [neg |-> FALSE, exp |-> 0, k |-> <<>>]
    /\ dint = 0
    /\ dtext = <<>>

\* settings(): the default settings
DefaultSettings ==
    [decimal_mark |-> ".", fancy_exponent |-> TRUE, standard_exp |-> 9]

\* The state menu at rest
\* No decimal object has been built
InitObjIdle ==
    heap = <<>> /\ reserved = 0 /\ heap0 = <<>> /\ kidx = 0 /\ kval = 0

\* loop::counted has not been entered: no pointer is set
PtrsIdle ==
    [pc |-> "idle", named |-> FALSE, stepping |-> FALSE,
     raw |-> [p \in {"start", "finish", "step", "astep"} |-> "null"],
     skip |-> FALSE, runs |-> 0, res |-> "OK", staleReads |-> {}]

\* File objects alive at the same time, numbered from 1 (0 is nullptr)
MaxFiles == 3

Files == 1..MaxFiles

\* file::file(): a file object after construction
NewFile == [valid |-> FALSE, writing |-> FALSE, name |-> "", pos |-> 0,
            closed |-> 0, previous |-> 0]

\* No file object is alive, file::current is nullptr
FilesIdle == [current |-> 0, files |-> [f \in Files |-> NewFile],
              nest |-> <<>>, failed |-> FALSE]

InitExtIdle ==
    /\ ptrs = PtrsIdle
    /\ disp = [fn |-> "none", tag |-> 0, op |-> "none", reported |-> FALSE,
               ret |-> 0, index |-> -1]
    /\ prs = [op |-> "none", handler |-> "none", format |-> "none",
              loop |-> [type |-> "none", name |-> <<>>, body |-> <<>>],
              text |-> <<>>,
              out |-> [res |-> 0, error |-> "none", end |-> 0,
                       type |-> "none", name |-> <<>>, body |-> <<>>]]
    /\ fs = FilesIdle
    /\ sn = [op |-> "none", path |-> <<>>, buffer |-> <<>>, writes |-> {},
             ret |-> <<>>]

InitSysIdle ==
    /\ Settings = DefaultSettings
    /\ saved = DefaultSettings
    /\ sop = "none" /\ spc = "done" /\ sret = "none" /\ why = "none"
    /\ globals = <<>> /\ stateFile = "none" /\ fileOut = <<>>
    /\ sidx = 0 /\ editor = <<>>
    /\ InitObjIdle
    /\ InitExtIdle
    /\ sys0 = [Settings |-> DefaultSettings, stack |-> <<>>,
               globals |-> <<>>]

Init ==
    /\ InitSysIdle
    /\ kind \in LoopKinds
    /\ stack \in InitStacks
    /\ pc = IF kind \in CondKinds THEN "head" ELSE "entry"
    /\ r = "OK"
    /\ err = "none"
    /\ interrupted = FALSE
    /\ cnt = 0 /\ last = 0 /\ incr = 1
    /\ astep = NullObj /\ skip = FALSE /\ acnt = 0 /\ alast = 0
    /\ local0 = NullObj
    /\ stack0 = stack
    /\ bodyRuns = 0 /\ condRuns = 0
    /\ iter = <<>>
    /\ truth = "none"
    /\ sawInt = FALSE
    /\ refCnt = 0 /\ refDiverged = FALSE /\ switched = FALSE
    /\ InitDecIdle

fastVars == <<cnt, last, incr>>
algVars  == <<astep, skip, acnt, alast>>
refVars  == <<refCnt, refDiverged, switched>>

-----------------------------------------------------------------------------
(* The host: an abort request sets the flag that interrupted() reads *)

Interrupt ==
    /\ pc \notin {"done", "crash"}
    /\ ~interrupted
    /\ interrupted' = TRUE
    /\ UNCHANGED <<kind, pc, stack, r, err, fastVars, algVars, local0,
                   histVars, decVars,
                   sysVars, objVars, extVars>>

-----------------------------------------------------------------------------
(* conditional_loop::condition(bool &value) *)

\* The result of condition() on stack s: <<result, value, stack after>>
condition(s) ==
    LET cond == StackAt(s, 0) IN
    IF cond = NullObj THEN <<"ERROR", FALSE, s>>
    ELSE IF as_truth(cond) >= 0
         THEN <<"OK", as_truth(cond) = 1, Drop(s, 1)>>
         ELSE <<"ERROR", FALSE, Drop(s, 1)>>

\* as_truth records a type error for an object that is no logical value
conditionErr(s) ==
    IF StackAt(s, 0) # NullObj /\ as_truth(StackAt(s, 0)) < 0
    THEN "type" ELSE err

TruthName(b) == IF b THEN "true" ELSE "false"

-----------------------------------------------------------------------------
(* EVAL_BODY(DoUntil) *)

\* while (!interrupted() && r == OK)
DoUntilTest ==
    /\ kind = "DoUntil" /\ pc = "head"
    /\ IF interrupted \/ r # "OK"
       THEN pc' = "done" /\ sawInt' = interrupted /\ iter' = iter
       ELSE pc' = "body" /\ sawInt' = sawInt /\ iter' = <<>>
    /\ UNCHANGED <<kind, stack, r, err, interrupted, fastVars, algVars,
                   local0, stack0, bodyRuns, condRuns, truth, refVars,
                   decVars,
                   sysVars, objVars, extVars>>

\* r = body->evaluate(); if (r != OK) break;
DoUntilBody ==
    /\ kind = "DoUntil" /\ pc = "body"
    /\ bodyRuns < MaxRuns
    /\ \E res \in Results :
          /\ r' = res
          /\ pc' = IF res = "OK" THEN "cond" ELSE "done"
    /\ bodyRuns' = bodyRuns + 1
    /\ iter' = Append(iter, "body")
    /\ UNCHANGED <<kind, stack, err, interrupted, fastVars, algVars, local0,
                   stack0, condRuns, truth, sawInt, refVars, decVars,
                   sysVars, objVars, extVars>>

\* r = cond->evaluate(); if (r != OK) break;
DoUntilCond ==
    /\ kind = "DoUntil" /\ pc = "cond"
    /\ \E res \in Results, push \in CondPushes :
          /\ r' = res
          /\ stack' = IF res = "OK" THEN Push(stack, push) ELSE stack
          /\ pc' = IF res = "OK" THEN "pop" ELSE "done"
    /\ condRuns' = condRuns + 1
    /\ iter' = Append(iter, "cond")
    /\ UNCHANGED <<kind, err, interrupted, fastVars, algVars, local0,
                   stack0, bodyRuns, truth, sawInt, refVars, decVars,
                   sysVars, objVars, extVars>>

\* A DO..UNTIL that would leave the loop on a false value instead of a true
\* one: the handler below with the exit test inverted
DoUntilExitOnFalse ==
    /\ kind = "DoUntil" /\ pc = "pop"
    /\ LET c == condition(stack) IN
          /\ r' = c[1]
          /\ stack' = c[3]
          /\ err' = conditionErr(stack)
          /\ truth' = IF c[1] = "OK" THEN TruthName(c[2]) ELSE truth
          /\ pc' = IF c[1] # "OK" \/ ~c[2] THEN "done" ELSE "head"
    /\ iter' = Append(iter, "pop")
    /\ UNCHANGED <<kind, interrupted, fastVars, algVars, local0, stack0,
                   bodyRuns, condRuns, sawInt, refVars, decVars,
                   sysVars, objVars, extVars>>

\* r = o->condition(test); if (r != OK || test) break;
DoUntilCondition ==
    /\ kind = "DoUntil" /\ pc = "pop"
    /\ LET c == condition(stack) IN
          /\ r' = c[1]
          /\ stack' = c[3]
          /\ err' = conditionErr(stack)
          /\ truth' = IF c[1] = "OK" THEN TruthName(c[2]) ELSE truth
          /\ pc' = IF c[1] # "OK" \/ c[2] THEN "done" ELSE "head"
    /\ iter' = Append(iter, "pop")
    /\ UNCHANGED <<kind, interrupted, fastVars, algVars, local0, stack0,
                   bodyRuns, condRuns, sawInt, refVars, decVars,
                   sysVars, objVars, extVars>>

-----------------------------------------------------------------------------
(* EVAL_BODY(WhileRepeat) *)

\* while (!interrupted() && r == OK)
WhileRepeatTest ==
    /\ kind = "WhileRepeat" /\ pc = "head"
    /\ IF interrupted \/ r # "OK"
       THEN pc' = "done" /\ sawInt' = interrupted /\ iter' = iter
       ELSE pc' = "cond" /\ sawInt' = sawInt /\ iter' = <<>>
    /\ UNCHANGED <<kind, stack, r, err, interrupted, fastVars, algVars,
                   local0, stack0, bodyRuns, condRuns, truth, refVars,
                   decVars,
                   sysVars, objVars, extVars>>

\* r = cond->evaluate(); if (r != OK) break;
WhileRepeatCond ==
    /\ kind = "WhileRepeat" /\ pc = "cond"
    /\ condRuns < MaxRuns
    /\ \E res \in Results, push \in CondPushes :
          /\ r' = res
          /\ stack' = IF res = "OK" THEN Push(stack, push) ELSE stack
          /\ pc' = IF res = "OK" THEN "pop" ELSE "done"
    /\ condRuns' = condRuns + 1
    /\ iter' = Append(iter, "cond")
    /\ UNCHANGED <<kind, err, interrupted, fastVars, algVars, local0,
                   stack0, bodyRuns, truth, sawInt, refVars, decVars,
                   sysVars, objVars, extVars>>

\* A WHILE..REPEAT that would run its body after a false value instead of a
\* true one: the handler below with the exit test inverted
WhileRepeatExitOnTrue ==
    /\ kind = "WhileRepeat" /\ pc = "pop"
    /\ LET c == condition(stack) IN
          /\ r' = c[1]
          /\ stack' = c[3]
          /\ err' = conditionErr(stack)
          /\ truth' = IF c[1] = "OK" THEN TruthName(c[2]) ELSE truth
          /\ pc' = IF c[1] # "OK" \/ c[2] THEN "done" ELSE "body"
    /\ iter' = Append(iter, "pop")
    /\ UNCHANGED <<kind, interrupted, fastVars, algVars, local0, stack0,
                   bodyRuns, condRuns, sawInt, refVars, decVars,
                   sysVars, objVars, extVars>>

\* r = condition(test); if (r != OK || !test) break;
WhileRepeatCondition ==
    /\ kind = "WhileRepeat" /\ pc = "pop"
    /\ LET c == condition(stack) IN
          /\ r' = c[1]
          /\ stack' = c[3]
          /\ err' = conditionErr(stack)
          /\ truth' = IF c[1] = "OK" THEN TruthName(c[2]) ELSE truth
          /\ pc' = IF c[1] # "OK" \/ ~c[2] THEN "done" ELSE "body"
    /\ iter' = Append(iter, "pop")
    /\ UNCHANGED <<kind, interrupted, fastVars, algVars, local0, stack0,
                   bodyRuns, condRuns, sawInt, refVars, decVars,
                   sysVars, objVars, extVars>>

\* r = body->evaluate();
WhileRepeatBody ==
    /\ kind = "WhileRepeat" /\ pc = "body"
    /\ \E res \in Results : r' = res
    /\ pc' = "head"
    /\ bodyRuns' = bodyRuns + 1
    /\ iter' = Append(iter, "body")
    /\ UNCHANGED <<kind, stack, err, interrupted, fastVars, algVars, local0,
                   stack0, condRuns, truth, sawInt, refVars, decVars,
                   sysVars, objVars, extVars>>

-----------------------------------------------------------------------------
(* loop::counted(body, stepping, named), entered from EVAL_BODY(StartNext), *)
(* EVAL_BODY(StartStep) and, through ForNext::counted, from the FOR loops.  *)

\* Exact arithmetic and comparison of two reals (operators of arithmetic.cc
\* and compare.cc), on values in halves
AlgAdd(a, b)  == a + b
AlgLess(a, b) == a < b
AlgMore(a, b) == a > b

\* cnt += incr on the machine word
UlargeAdd(a, b) == (a + b) % UlargeMod

\* ForNext::counted: the start value becomes local 0, then loop::counted:
\* finish = rt.stack(0), start = rt.stack(1), rt.drop(2), then the type test
CountedEntry ==
    /\ kind \in CountedKinds /\ pc = "entry"
    /\ LET finish == StackAt(stack, 0)
           start  == StackAt(stack, 1)
       IN
       IF start = NullObj \/ finish = NullObj
       THEN \* return ERROR, nothing dropped, no message recorded
            /\ r' = "ERROR" /\ pc' = "done"
            /\ UNCHANGED <<stack, err, fastVars, algVars, local0, refCnt>>
       ELSE /\ stack' = Drop(stack, 2)
            /\ IF start.ty = "integer" /\ finish.ty = "integer"
               THEN \* the fast route
                    /\ cnt' = start.v /\ last' = finish.v /\ incr' = 1
                    /\ pc' = "fhead"
                    /\ local0' = IF named(kind) THEN start ELSE local0
                    /\ refCnt' = Halves(start)
                    /\ UNCHANGED <<r, err, algVars>>
               ELSE IF is_real(start) /\ is_real(finish)
               THEN \* the algebraic route, with a step of 1
                    /\ astep' = IntObj(1)
                    /\ acnt' = Halves(start) /\ alast' = Halves(finish)
                    /\ pc' = "ahead"
                    /\ local0' = IF named(kind) THEN start ELSE local0
                    /\ UNCHANGED <<r, err, fastVars, skip, refCnt>>
               ELSE \* rt.type_error(); return ERROR;
                    /\ err' = "type" /\ r' = "ERROR" /\ pc' = "done"
                    /\ local0' = LocalAtExit
                    /\ UNCHANGED <<fastVars, algVars, refCnt>>
    /\ UNCHANGED <<kind, interrupted, stack0, bodyRuns, condRuns, iter,
                   truth, sawInt, refDiverged, switched, decVars,
                   sysVars, objVars, extVars>>

\* fast path: while (!interrupted() && r == OK), then rt.local(0, cnt)
FastTest ==
    /\ kind \in CountedKinds /\ pc = "fhead"
    /\ IF interrupted \/ r # "OK"
       THEN \* leaves the loop; astep is null: return r
            /\ pc' = "done" /\ sawInt' = interrupted
            /\ local0' = LocalAtExit
       ELSE /\ pc' = "fbody" /\ sawInt' = sawInt
            /\ local0' = IF named(kind) THEN IntObj(cnt) ELSE local0
    /\ UNCHANGED <<kind, stack, r, err, interrupted, fastVars, algVars,
                   stack0, bodyRuns, condRuns, iter, truth, refVars,
                   decVars,
                   sysVars, objVars, extVars>>

\* fast path: r = body->evaluate(); if (r != OK) break;
FastBody ==
    /\ kind \in CountedKinds /\ pc = "fbody"
    /\ bodyRuns < MaxRuns
    /\ \E res \in Results, push \in BodyPushes(kind) :
          /\ r' = res
          /\ stack' = IF res = "OK" THEN Push(stack, push) ELSE stack
          /\ pc' = IF res = "OK" THEN "fstep" ELSE "done"
          /\ local0' = IF res = "OK" THEN local0 ELSE LocalAtExit
    /\ bodyRuns' = bodyRuns + 1
    /\ UNCHANGED <<kind, err, interrupted, fastVars, algVars, stack0,
                   condRuns, iter, truth, sawInt, refVars, decVars,
                   sysVars, objVars, extVars>>

\* fast path: cnt += incr; if (cnt > last) break;  with the new incr
FastNext(newIncr) ==
    LET c    == UlargeAdd(cnt, newIncr)
        ref  == AlgAdd(refCnt, 2 * newIncr)
        out  == c > last
        rout == AlgMore(ref, 2 * last)
    IN  /\ incr' = newIncr
        /\ cnt' = c
        /\ last' = last
        /\ refCnt' = ref
        /\ refDiverged' = (refDiverged \/ (out # rout))
        /\ pc' = IF out THEN "done" ELSE "fhead"
        /\ local0' = IF out THEN LocalAtExit ELSE local0

\* fast path, after the body: the step popped by a STEP loop, then the count
FastStep ==
    /\ kind \in CountedKinds /\ pc = "fstep"
    /\ IF stepping(kind)
       THEN LET step == StackAt(stack, 0) IN
            IF step = NullObj
            THEN \* if (!step) return ERROR;
                 /\ r' = "ERROR" /\ pc' = "done" /\ local0' = LocalAtExit
                 /\ UNCHANGED <<stack, err, fastVars, algVars, refVars>>
            ELSE IF step.ty = "integer"
            THEN /\ stack' = Drop(stack, 1)
                 /\ FastNext(step.v % UlargeMod)
                 /\ UNCHANGED <<r, err, algVars, switched>>
            ELSE IF is_real(step)
            THEN \* switch to the slower "algebraic" loop
                 /\ stack' = Drop(stack, 1)
                 /\ astep' = step
                 /\ acnt' = Halves(IntObj(cnt))
                 /\ alast' = Halves(IntObj(last))
                 /\ skip' = TRUE
                 /\ switched' = TRUE
                 /\ pc' = "ahead"
                 /\ UNCHANGED <<r, err, fastVars, local0, refCnt,
                                refDiverged>>
            ELSE \* rt.type_error(); return ERROR;
                 /\ stack' = Drop(stack, 1)
                 /\ err' = "type" /\ r' = "ERROR" /\ pc' = "done"
                 /\ local0' = LocalAtExit
                 /\ UNCHANGED <<fastVars, algVars, refVars>>
       ELSE /\ FastNext(incr)
            /\ UNCHANGED <<stack, r, err, algVars, switched>>
    /\ UNCHANGED <<kind, interrupted, stack0, bodyRuns, condRuns, iter,
                   truth, sawInt, decVars,
                   sysVars, objVars, extVars>>

\* algebraic path: while (!interrupted() && r == OK), the skip of the first
\* execution after a switch, then rt.local(0, cnt)
AlgTest ==
    /\ kind \in CountedKinds /\ pc = "ahead"
    /\ IF interrupted \/ r # "OK"
       THEN /\ pc' = "done" /\ sawInt' = interrupted
            /\ local0' = LocalAtExit /\ skip' = skip
       ELSE IF skip
       THEN /\ skip' = FALSE /\ pc' = "aincr"
            /\ UNCHANGED <<sawInt, local0>>
       ELSE /\ pc' = "abody" /\ skip' = skip /\ sawInt' = sawInt
            /\ local0' = IF named(kind) THEN RealObj(acnt) ELSE local0
    /\ UNCHANGED <<kind, stack, r, err, interrupted, fastVars, astep, acnt,
                   alast, stack0, bodyRuns, condRuns, iter, truth, refVars,
                   decVars,
                   sysVars, objVars, extVars>>

\* algebraic path: r = body->evaluate(); if (r != OK) break;
AlgBody ==
    /\ kind \in CountedKinds /\ pc = "abody"
    /\ bodyRuns < MaxRuns
    /\ \E res \in Results, push \in BodyPushes(kind) :
          /\ r' = res
          /\ stack' = IF res = "OK" THEN Push(stack, push) ELSE stack
          /\ pc' = IF res # "OK" THEN "done"
                   ELSE IF stepping(kind) THEN "astep" ELSE "aincr"
          /\ local0' = IF res = "OK" THEN local0 ELSE LocalAtExit
    /\ bodyRuns' = bodyRuns + 1
    /\ UNCHANGED <<kind, err, interrupted, fastVars, algVars, stack0,
                   condRuns, iter, truth, sawInt, refVars, decVars,
                   sysVars, objVars, extVars>>

\* algebraic path: step = rt.pop(); if (!step) return ERROR;
AlgStep ==
    /\ kind \in CountedKinds /\ pc = "astep"
    /\ LET step == StackAt(stack, 0) IN
       IF step = NullObj
       THEN /\ r' = "ERROR" /\ pc' = "done" /\ local0' = LocalAtExit
            /\ UNCHANGED <<stack, astep>>
       ELSE /\ stack' = Drop(stack, 1)
            /\ astep' = step
            /\ pc' = "aincr"
            /\ UNCHANGED <<r, local0>>
    /\ UNCHANGED <<kind, err, interrupted, fastVars, skip, acnt, alast,
                   stack0, bodyRuns, condRuns, iter, truth, sawInt, refVars,
                   decVars,
                   sysVars, objVars, extVars>>

\* algebraic path: cnt = cnt + step; countdown; test; if (test) break;
\* A step that is no number gives a null sum, and test->as_truth() then
\* goes through a null pointer: the evaluation crashes or comes back failed.
AlgIncr ==
    /\ kind \in CountedKinds /\ pc = "aincr"
    /\ IF ~is_real(astep)
       THEN /\ pc' \in {"crash", "done"}
            /\ err' = "type" /\ r' = "ERROR"
            /\ local0' = LocalAtExit
            /\ acnt' = acnt
       ELSE LET c         == AlgAdd(acnt, Halves(astep))
                countdown == stepping(kind) /\ AlgLess(Halves(astep), 0)
                test      == IF countdown THEN AlgLess(c, alast)
                                          ELSE AlgMore(c, alast)
            IN  /\ acnt' = c
                /\ pc' = IF test THEN "done" ELSE "ahead"
                /\ local0' = IF test THEN LocalAtExit ELSE local0
                /\ UNCHANGED <<r, err>>
    /\ UNCHANGED <<kind, stack, interrupted, fastVars, astep, skip, alast,
                   stack0, bodyRuns, condRuns, iter, truth, sawInt, refVars,
                   decVars,
                   sysVars, objVars, extVars>>

-----------------------------------------------------------------------------

Next ==
    \/ Interrupt
    \/ DoUntilTest
    \/ DoUntilBody
    \/ DoUntilCond
    \/ DoUntilCondition
    \/ WhileRepeatTest
    \/ WhileRepeatCond
    \/ WhileRepeatCondition
    \/ WhileRepeatBody
    \/ CountedEntry
    \/ FastTest
    \/ FastBody
    \/ FastStep
    \/ AlgTest
    \/ AlgBody
    \/ AlgStep
    \/ AlgIncr

Spec == Init /\ [][Next]_vars

-----------------------------------------------------------------------------
(* The decimal machine (decimal.cc, decimal.h).  A decimal is its type     *)
(* (neg: ID_neg_decimal rather than ID_decimal), its exponent and its      *)
(* kigits, base-1000 digits with the most significant first; its value is  *)
(* 0.k1 k2 k3 ... * 10^exp.                                                *)

\* Largest exponent of an operand
MaxDecExp == 1

\* Values of Settings.Precision() exercised
Precisions == {3, 6, 9}

\* Mantissas of the operands: normalized (first kigit >= 100, last one # 0)
Mantissas == {<<100>>, <<120>>, <<340>>, <<500>>, <<999>>,
              <<100, 1>>, <<500, 1>>, <<600, 1>>, <<100, 500>>, <<999, 999>>}

Dec(n, e, m) == [neg |-> n, exp |-> e, k |-> m]
DecZero      == Dec(FALSE, 0, <<>>)

\* Operands far from the others: small ones, and a large one of two kigits
FarDecimals ==
    {Dec(n, -1, <<100>>) : n \in BOOLEAN}
    \cup {Dec(n, -1, <<500>>) : n \in BOOLEAN}
    \cup {Dec(n, -3, <<100>>) : n \in BOOLEAN}
    \cup {Dec(n, 3, <<100, 500>>) : n \in BOOLEAN}
    \cup {Dec(n, 4, <<100>>) : n \in BOOLEAN}

Decimals ==
    {Dec(n, e, m) : n \in BOOLEAN, e \in 0..MaxDecExp, m \in Mantissas}
    \cup FarDecimals
    \cup {DecZero}

\* F applied to the value of v, computed once
With(v, F(_)) == CHOOSE res \in {F(a) : a \in {v}} : TRUE

Min(a, b) == IF a < b THEN a ELSE b
Max(a, b) == IF a > b THEN a ELSE b

\* kigit(base, index): the index-th kigit, counted from 0
kigit(d, index) == d.k[index + 1]

\* rt.make<decimal>(ty, exponent, nkigits, kigits): the first nkigits of a
\* scratch array rb (indexed from 0) become the kigits of the object
MakeDecimal(ty, e, rs, rb) == [neg |-> ty, exp |-> e,
                               k   |-> [i \in 1..rs |-> rb[i - 1]]]

\* negtype(type)
negtype(ty) == ~ty

\* decimal::neg
decimal_neg(x) == [x EXCEPT !.neg = negtype(x.neg)]

\* while (rs && rb[rs-1] == 0) rs--;
RECURSIVE StripTrailing(_, _)
StripTrailing(rb, rs) ==
    IF rs > 0 /\ rb[rs - 1] = 0 THEN StripTrailing(rb, rs - 1) ELSE rs

\* while (rs && *rb == 0) { e -= 3; rb++; rs--; } : number of kigits skipped
RECURSIVE StripLeading(_, _, _)
StripLeading(rb, from, rs) ==
    IF from < rs /\ rb[from] = 0 THEN StripLeading(rb, from + 1, rs)
                                 ELSE from

\* for (ko = 0; ko < rs; ko++) rb[ko] = (rb[ko] * hmul + next / lmul) % 1000
ShiftUp(rb, rs, hmul) ==
    LET lmul == 1000 \div hmul IN
    [ko \in 0..(rs - 1) |->
        (rb[ko] * hmul
           + (IF ko + 1 < rs THEN rb[ko + 1] ELSE 0) \div lmul) % 1000]

\* hmul = 10; while (carry >= hmul) { hmul *= 10; expincr++; }
RECURSIVE CarryWidth(_, _, _)
CarryWidth(carry, hmul, expincr) ==
    IF carry >= hmul THEN CarryWidth(carry, hmul * 10, expincr + 1)
                     ELSE <<hmul, expincr>>

\* decimal::add(x, y) under Settings.Precision() = prec
decimal_add(x, y, prec) ==
    LET lt     == x.exp < y.exp
        xi     == IF lt THEN y ELSE x
        yi     == IF lt THEN x ELSE y
        xe     == xi.exp
        ye     == yi.exp
        ty     == x.neg
        xs     == Len(xi.k)
        ys     == Len(yi.k)
        yshift == xe - ye
        kshift == yshift \div 3
        mod3   == yshift % 3
        ps     == (prec + 2) \div 3
        rs     == Min(ps, Max(xs, ys + (yshift + 2) \div 3))
        hmul   == IF mod3 = 2 THEN 100 ELSE IF mod3 = 1 THEN 10 ELSE 1
        lmul   == 1000 \div hmul
        \* xk before the carry is added
        term   == [ko \in 0..(rs - 1) |->
                     (IF ko < xs THEN kigit(xi, ko) ELSE 0)
                     + (IF ko >= kshift
                        THEN LET yo == ko - kshift IN
                             (IF yo < ys THEN kigit(yi, yo) ELSE 0) \div hmul
                             + (IF mod3 # 0 /\ ko > kshift /\ yo - 1 < ys
                                THEN (kigit(yi, yo - 1) % hmul) * lmul
                                ELSE 0)
                        ELSE 0)]
        \* xk after the carry is added
        sum[ko \in 0..(rs - 1)] ==
            term[ko] + (IF ko = rs - 1 THEN 0 ELSE sum[ko + 1] \div 1000)
        rb     == [ko \in 0..(rs - 1) |-> sum[ko] % 1000]
        carry  == IF rs = 0 THEN 0 ELSE sum[0] \div 1000
        cw     == CarryWidth(carry, 10, 1)
        chmul  == cw[1]
        clmul  == 1000 \div chmul
        rbc    == [ko \in 0..(rs - 1) |->
                     rb[ko] \div chmul
                     + ((IF ko > 0 THEN rb[ko - 1] ELSE carry) % chmul)
                       * clmul]
        rb2    == IF carry > 0 THEN rbc ELSE rb
        xe2    == IF carry > 0 THEN xe + cw[2] ELSE xe
    IN  IF rs < kshift
        THEN (IF lt THEN y ELSE x)
        ELSE MakeDecimal(ty, xe2, StripTrailing(rb2, rs), rb2)

\* decimal::sub(x, y) under Settings.Precision() = prec
decimal_sub(x, y, prec) ==
    LET lt     == x.exp < y.exp
        xi     == IF lt THEN y ELSE x
        yi     == IF lt THEN x ELSE y
        xe     == xi.exp
        ye     == yi.exp
        xs     == Len(xi.k)
        ys     == Len(yi.k)
        yshift == xe - ye
        kshift == yshift \div 3
        mod3   == yshift % 3
        ps     == (prec + 2) \div 3
        rs     == Min(ps, Max(xs, ys + (yshift + 2) \div 3))
        hmul   == IF mod3 = 2 THEN 100 ELSE IF mod3 = 1 THEN 10 ELSE 1
        lmul   == 1000 \div hmul
        xk     == [ko \in 0..(rs - 1) |->
                     IF ko < xs THEN kigit(xi, ko) ELSE 0]
        \* yk before the carry is added
        term   == [ko \in 0..(rs - 1) |->
                     IF ko >= kshift /\ ko - kshift < ys
                     THEN LET yo == ko - kshift IN
                          kigit(yi, yo) \div hmul
                          + (IF mod3 # 0 /\ ko > kshift /\ yo - 1 < ys
                             THEN (kigit(yi, yo - 1) % hmul) * lmul
                             ELSE 0)
                     ELSE 0]
        \* carry = xk < yk, after kigit ko
        borrow[ko \in 0..(rs - 1)] ==
            LET yk == term[ko]
                      + (IF ko = rs - 1 THEN 0 ELSE borrow[ko + 1])
            IN  IF xk[ko] < yk THEN 1 ELSE 0
        rb     == [ko \in 0..(rs - 1) |->
                     xk[ko] + 1000 * borrow[ko]
                     - (term[ko]
                        + (IF ko = rs - 1 THEN 0 ELSE borrow[ko + 1]))]
        carry  == IF rs = 0 THEN 0 ELSE borrow[0]
        \* a carry remaining above the top: rb[ko] = rev - rb[ko]
        rb1    == IF carry > 0
                  THEN [ko \in 0..(rs - 1) |->
                          (IF ko = rs - 1 THEN 1000 ELSE 999) - rb[ko]]
                  ELSE rb
        lt1    == IF carry > 0 THEN ~lt ELSE lt
        \* leading zeroes, three by three
        z      == StripLeading(rb1, 0, rs)
        rs2    == rs - z
        rb2    == [ko \in 0..(rs2 - 1) |-> rb1[ko + z]]
        xe2    == xe - 3 * z
        \* up to two individual leading zeroes
        shift  == rs2 > 0 /\ rb2[0] < 100
        rb3    == IF shift
                  THEN ShiftUp(rb2, rs2, IF rb2[0] < 10 THEN 100 ELSE 10)
                  ELSE rb2
        xe3    == IF shift
                  THEN xe2 - (1 + (IF rb2[0] < 10 THEN 1 ELSE 0))
                           - (IF 1 + rb3[0] < 10 THEN 1 ELSE 0)
                  ELSE xe2
        xe4    == IF rs2 = 0 THEN 0 ELSE xe3
        ty     == IF lt1 THEN negtype(x.neg) ELSE x.neg
    IN  IF rs < kshift
        THEN (IF lt THEN decimal_neg(y) ELSE x)
        ELSE MakeDecimal(ty, xe4, StripTrailing(rb3, rs2), rb3)

\* decimal::mul: while (rk) { rk += rb[ri]; rb[ri] = rk % 1000; rk /= 1000;
\* if (ri-- == 0) break; }   Gives <<rb, what is left of rk>>
RECURSIVE MulCarryUp(_, _, _)
MulCarryUp(rb, ri, rk) ==
    IF rk = 0 THEN <<rb, 0>>
    ELSE LET t   == rk + rb[ri]
             rb2 == [rb EXCEPT ![ri] = t % 1000]
         IN  IF ri = 0 THEN <<rb2, t \div 1000>>
                       ELSE MulCarryUp(rb2, ri - 1, t \div 1000)

\* decimal::mul: the loop on yi for one xi; st is <<rb, carry>>
RECURSIVE MulRow(_, _, _, _, _, _)
MulRow(st, x, y, xi, yi, rs) ==
    IF yi >= Len(y.k) \/ xi + yi >= rs THEN st
    ELSE LET p == MulCarryUp(st[1], xi + yi, kigit(x, xi) * kigit(y, yi))
         IN  MulRow(<<p[1], st[2] + p[2]>>, x, y, xi, yi + 1, rs)

\* decimal::mul: the loop on xi
RECURSIVE MulSum(_, _, _, _, _)
MulSum(st, x, y, xi, rs) ==
    IF xi >= Len(x.k) THEN st
    ELSE MulSum(MulRow(st, x, y, xi, 0, rs), x, y, xi + 1, rs)

\* decimal::mul: while (overflow && ri --> 0) { overflow = ++rb[ri] >= 1000;
\* if (overflow) rb[ri] %= 1000; }  entered with overflow set.
\* Gives <<rb, overflow>>
RECURSIVE MulRoundUp(_, _)
MulRoundUp(rb, ri) ==
    IF ri = 0 THEN <<rb, TRUE>>
    ELSE LET v == rb[ri - 1] + 1 IN
         IF v >= 1000
         THEN MulRoundUp([rb EXCEPT ![ri - 1] = v % 1000], ri - 1)
         ELSE <<[rb EXCEPT ![ri - 1] = v], FALSE>>

\* decimal::mul: while (carry) { round up; memmove; *rb = carry % 1000;
\* re += 3; carry /= 1000; }   Gives <<rb, re>>
RECURSIVE MulCarryIn(_, _, _, _)
MulCarryIn(rb, re, carry, rs) ==
    IF carry = 0 THEN <<rb, re>>
    ELSE LET rnd == IF rb[rs - 1] >= 500 THEN MulRoundUp(rb, rs - 1)
                                         ELSE <<rb, FALSE>>
             c   == IF rnd[2] THEN carry + 1 ELSE carry
             mv  == [ko \in 0..(rs - 1) |->
                       IF ko = 0 THEN c % 1000 ELSE rnd[1][ko - 1]]
         IN  MulCarryIn(mv, re + 3, c \div 1000, rs)

\* decimal::mul(x, y) under Settings.Precision() = prec
decimal_mul(x, y, prec) ==
    LET xe   == x.exp
        ye   == y.exp
        ty   == x.neg # y.neg
        xs   == Len(x.k)
        ys   == Len(y.k)
        re   == xe + ye - 3
        ps   == (prec + 2) \div 3
        rs   == Min(ps, xs + ys + 1)
        zero == [ri \in 0..(rs - 1) |-> 0]
        st   == MulSum(<<zero, 0>>, x, y, 0, rs)
        ci   == MulCarryIn(st[1], re, st[2], rs)
        rb1  == ci[1]
        re1  == ci[2]
        z    == StripLeading(rb1, 0, rs)
        rs2  == rs - z
        rb2  == [ko \in 0..(rs2 - 1) |-> rb1[ko + z]]
        re2  == re1 - 3 * z
        shift == rs2 > 0 /\ rb2[0] < 100
        rb3  == IF shift
                THEN ShiftUp(rb2, rs2, IF rb2[0] < 10 THEN 100 ELSE 10)
                ELSE rb2
        re3  == IF shift THEN re2 - (1 + (IF rb2[0] < 10 THEN 1 ELSE 0))
                         ELSE re2
    IN  MakeDecimal(ty, re3, StripTrailing(rb3, rs2), rb3)

\* decimal::compare(x, y): -1, 0 or 1, or a difference of that sign
decimal_compare(x, y) ==
    LET sign == IF x.neg THEN -1 ELSE 1
        xs   == Len(x.k)
        ys   == Len(y.k)
        s    == Min(xs, ys)
        \* indices (from 0) below s where the kigits differ
        diffs == {i \in 0..(s - 1) : kigit(x, i) # kigit(y, i)}
        first == CHOOSE i \in diffs : \A j \in diffs : i <= j
    IN  IF x = y THEN 0
        ELSE IF x.neg # y.neg
        THEN (IF ~x.neg THEN 1 ELSE 0) - (IF ~y.neg THEN 1 ELSE 0)
        ELSE IF x.exp # y.exp THEN sign * (x.exp - y.exp)
        ELSE IF diffs # {}
        THEN sign * (kigit(x, first) - kigit(y, first))
        ELSE IF xs # ys THEN sign * (xs - ys)
        ELSE 0

\* decimal.h: operator+(x, y) and operator-(x, y)
operator_plus(x, y, prec)  == decimal_add(x, y, prec)
operator_minus(x, y, prec) == decimal_sub(x, y, prec)

-----------------------------------------------------------------------------
(* Text of a decimal: PARSE_BODY(decimal) and RENDER_BODY(decimal).  A     *)
(* text is a sequence of characters; "E" stands for the exponent separator *)
(* of the settings, which the parser takes like 'e' and 'E'.               *)

DigitChars == <<"0", "1", "2", "3", "4", "5", "6", "7", "8", "9">>

IsDigit(c)  == \E i \in 1..10 : DigitChars[i] = c
\* *s - '0'
DigitVal(c) == (CHOOSE i \in 1..10 : DigitChars[i] = c) - 1
\* char('0' + d); a d above 9 gives the character after '9'
DigitChar(d) == IF d \in 0..9 THEN DigitChars[d + 1] ELSE ":"

\* printf("%d", n)
RECURSIVE NatText(_)
NatText(n) == IF n < 10 THEN <<DigitChar(n)>>
              ELSE Append(NatText(n \div 10), DigitChar(n % 10))
IntText(n) == IF n < 0 THEN <<"-">> \o NatText(-n) ELSE NatText(n)

\* The character at position s of a text (from 1), "" past its end
CharAt(t, s) == IF s \in 1..Len(t) THEN t[s] ELSE ""

\* PARSE_BODY(decimal): the loop scanning digits and the decimal dot.
\* st is the state of the scan; s the position in the text
RECURSIVE ParseScan(_, _)
ParseScan(t, st) ==
    LET c == CharAt(t, st.s) IN
    IF st.s > Len(t) THEN st
    ELSE IF IsDigit(c)
    THEN IF ~st.zeroes \/ c # "0"
         THEN LET kg   == st.kigit * 10 + DigitVal(c)
                  full == st.kigc + 1 = 3
              IN  ParseScan(t,
                    [st EXCEPT !.s = @ + 1,
                               !.digits = @ + 1,
                               !.exponent = IF st.dot THEN @ ELSE @ + 1,
                               !.kigit = IF full THEN 0 ELSE kg,
                               !.kigc = IF full THEN 0 ELSE @ + 1,
                               !.kigs = IF full THEN Append(@, kg) ELSE @,
                               !.zeroes = FALSE])
         ELSE ParseScan(t,
                    [st EXCEPT !.s = @ + 1,
                               !.digits = @ + 1,
                               !.exponent = IF st.dot THEN @ - 1 ELSE @])
    ELSE IF ~st.dot /\ c \in {".", ","}
    THEN ParseScan(t, [st EXCEPT !.s = @ + 1, !.dot = TRUE])
    ELSE st

\* while (kigc++ < 3) kigit *= 10;
ParsePad(kg, kigc) == IF kigc = 1 THEN kg * 100 ELSE kg * 10

\* while (+s < +last && (*s >= '0' && *s <= '9')) ++s;
RECURSIVE SkipDigits(_, _)
SkipDigits(t, s) ==
    IF IsDigit(CharAt(t, s)) THEN SkipDigits(t, s + 1) ELSE s

\* atoi on the digits of t from s up to (not including) e
RECURSIVE AtoiDigits(_, _, _, _)
AtoiDigits(t, s, e, acc) ==
    IF s >= e THEN acc
    ELSE AtoiDigits(t, s + 1, e, acc * 10 + DigitVal(t[s]))

\* PARSE_BODY(decimal) on text t: <<result, object>>.  inEquation is
\* p.precedence < 0, tooMany is Settings.TooManyDigitsErrors()
ParseDecimal(t, inEquation, tooMany, prec) ==
    LET signed == CharAt(t, 1) \in {"+", "-"}
        type   == CharAt(t, 1) = "-"
        st0    == [s |-> IF signed THEN 2 ELSE 1, kigit |-> 0, kigc |-> 0,
                   exponent |-> 0, dot |-> FALSE, digits |-> 0,
                   zeroes |-> TRUE, kigs |-> <<>>]
        st     == ParseScan(t, st0)
        kigs   == IF st.kigc > 0
                  THEN Append(st.kigs, ParsePad(st.kigit, st.kigc))
                  ELSE st.kigs
        s      == st.s
        hasExp == CharAt(t, s) \in {"e", "E"}
        expsrc == s + 1
        expst  == IF CharAt(t, expsrc) \in {"+", "-"} THEN expsrc + 1
                                                     ELSE expsrc
        expend == SkipDigits(t, expst)
        mag    == AtoiDigits(t, expst, expend, 0)
        expval == IF CharAt(t, expsrc) = "-" THEN -mag ELSE mag
        exponent == IF hasExp THEN st.exponent + expval ELSE st.exponent
    IN  IF signed /\ inEquation THEN <<"SKIP", DecZero>>
        ELSE IF st.digits = 0 THEN <<"SKIP", DecZero>>
        ELSE IF tooMany /\ st.digits > prec THEN <<"ERROR", DecZero>>
        ELSE IF hasExp /\ expend = expst THEN <<"ERROR", DecZero>>
        ELSE <<"OK", Dec(type, exponent, kigs)>>

\* BID128_MAXDIGITS, the digits of a number in a saved file
BID128_MAXDIGITS == 34

\* The decimal digits of the kigits k, three for each, in order
RECURSIVE KigitDigits(_)
KigitDigits(k) ==
    IF k = <<>> THEN <<>>
    ELSE <<k[1] \div 100, (k[1] \div 10) % 10, k[1] % 10>>
         \o KigitDigits(Tail(k))

\* RENDER_BODY(decimal): the loop emitting the digits ds from the i-th on, in
\* Sig mode without digit spacing.  Gives the output, decpos, decimals,
\* lastnz, the last digit d computed, and whether digits remain after it
RECURSIVE RenderDigits(_, _, _, _, _, _, _, _)
RenderDigits(ds, i, out, decpos, decimals, lastnz, showdec, decimal) ==
    IF i > Len(ds)
    THEN [out |-> out, decpos |-> decpos, decimals |-> decimals,
          lastnz |-> lastnz, d |-> IF i > 1 THEN ds[i - 1] ELSE 0,
          rest |-> FALSE]
    ELSE LET d == ds[i] IN
         IF decimals <= 0
         THEN [out |-> out, decpos |-> decpos, decimals |-> decimals,
               lastnz |-> lastnz, d |-> d, rest |-> i < Len(ds)]
         ELSE LET out1    == Append(out, DigitChar(d))
                  decpos1 == decpos - 1
                  lastnz1 == IF decpos1 >= 0 \/ d # 0 THEN Len(out1)
                                                      ELSE lastnz
                  more    == i < Len(ds) \/ decpos1 > 0
                  putdec  == decpos1 = 0 /\ (more \/ showdec)
                  out2    == IF putdec THEN Append(out1, decimal) ELSE out1
                  lastnz2 == IF putdec THEN Len(out2) ELSE lastnz1
              IN  RenderDigits(ds, i + 1, out2, decpos1, decimals - 1,
                               lastnz2, showdec, decimal)

\* RENDER_BODY(decimal): rounding of the text already written, from its
\* last character back to position start.  Gives the text, whether the
\* rounding went past its first character, decimals and decpos
RECURSIVE RenderRound(_, _, _, _, _, _, _)
RenderRound(out, pos, start, stripzeros, decimals, decpos, decimal) ==
    IF pos < start
    THEN [out |-> out, rounding |-> TRUE, decimals |-> decimals,
          decpos |-> decpos]
    ELSE LET c == out[pos] IN
         IF IsDigit(c)
         THEN IF c # "9"
              THEN [out |-> [out EXCEPT ![pos] = DigitChar(DigitVal(c) + 1)],
                    rounding |-> FALSE, decimals |-> decimals,
                    decpos |-> decpos]
              ELSE IF stripzeros /\ pos > start
              THEN RenderRound(SubSeq(out, 1, Len(out) - 1), pos - 1, start,
                               TRUE, decimals + 1, decpos + 1, decimal)
              ELSE RenderRound([out EXCEPT ![pos] = "0"], pos - 1, start,
                               FALSE, decimals, decpos, decimal)
         ELSE IF c = decimal
         THEN RenderRound(out, pos - 1, start, FALSE, decimals, decpos,
                          decimal)
         ELSE IF stripzeros
         THEN RenderRound(SubSeq(out, 1, Len(out) - 1), pos - 1, start,
                          TRUE, decimals, decpos, decimal)
         ELSE RenderRound(out, pos - 1, start, stripzeros, decimals, decpos,
                          decimal)

\* while (decimals > 0) { r.put('0'); decpos--; if (decpos == 0 && showdec)
\* r.put(decimal); decimals--; }
RECURSIVE RenderZeroes(_, _, _, _, _)
RenderZeroes(out, decpos, decimals, showdec, decimal) ==
    IF decimals <= 0 THEN out
    ELSE LET out1 == Append(out, "0")
             out2 == IF decpos - 1 = 0 /\ showdec THEN Append(out1, decimal)
                                                  ELSE out1
         IN  RenderZeroes(out2, decpos - 1, decimals - 1, showdec, decimal)

\* for (int zeroes = realexp + 1; zeroes < 0; zeroes++) r.put('0');
RECURSIVE ZeroChars(_)
ZeroChars(n) == IF n <= 0 THEN <<>> ELSE Append(ZeroChars(n - 1), "0")

\* RENDER_BODY(decimal): one pass of the do .. while (overflow) loop, for
\* editing (raw FALSE) or for a saved file (raw TRUE), where the mode is Sig
\* and, as modelled, the digits are not spaced.  sign is the text written
\* before the pass.
RECURSIVE RenderPass(_, _, _, _, _, _, _, _)
RenderPass(d, sign, exponent, overflow, digits, std_exp, showdec, decimal) ==
    LET nkigits == Len(d.k)
        realexp == exponent - 1
        mexp    == nkigits * 3
        minexp  == IF digits < std_exp THEN digits ELSE std_exp
        hasexp  == IF realexp < 0 THEN mexp - realexp - 1 >= minexp
                                  ELSE realexp >= std_exp
        decpos0 == IF realexp >= 0 /\ ~hasexp THEN realexp + 1 ELSE 1
        lead    == ~hasexp /\ realexp < 0
        nzero   == IF lead THEN -(realexp + 1) ELSE 0
        out0    == IF lead THEN sign \o <<"0", decimal>> \o ZeroChars(nzero)
                           ELSE sign
        decpos1 == IF lead THEN decpos0 - 1 ELSE decpos0
        ds      == IF overflow THEN <<1>> ELSE KigitDigits(d.k)
        em      == RenderDigits(ds, 1, out0, decpos1, digits - nzero,
                                Len(out0), showdec, decimal)
        round   == em.rest /\ em.d >= 5
        rd      == RenderRound(em.out, Len(em.out), Len(sign) + 1, TRUE,
                               em.decimals, em.decpos, decimal)
        out1    == IF round THEN rd.out
                   ELSE IF Len(em.out) > em.lastnz
                   THEN SubSeq(em.out, 1, em.lastnz)
                   ELSE em.out
        decpos2 == IF round THEN rd.decpos ELSE em.decpos
        out2    == RenderZeroes(out1, decpos2,
                                IF decpos2 > 0 THEN decpos2 ELSE 0,
                                showdec, decimal)
    IN  IF round /\ rd.rounding
        THEN RenderPass(d, sign, exponent + 1, TRUE, digits, std_exp,
                        showdec, decimal)
        ELSE IF hasexp THEN out2 \o <<"E">> \o IntText(realexp)
        ELSE out2

\* RENDER_BODY(decimal) for editing (raw FALSE) or for a saved file (raw
\* TRUE); ds holds StandardExponent, TrailingDecimal and DecimalSeparator
RenderDecimal(d, raw, ds) ==
    RenderPass(d,
               IF d.neg THEN <<"-">> ELSE <<>>,
               d.exp, FALSE,
               IF raw THEN BID128_MAXDIGITS ELSE 3 * Len(d.k),
               IF raw THEN 9 ELSE ds.std_exp,
               IF raw THEN TRUE ELSE ds.showdec,
               IF raw THEN "." ELSE ds.decimal)

\* RENDER_BODY(decimal) on the stack: the loop emitting the digits ds from
\* the i-th on, in mode Sig, Fix or Sci, without digit spacing
RECURSIVE ShownDigits(_, _, _, _, _, _, _, _, _)
ShownDigits(ds, i, out, decpos, decimals, lastnz, sigmode, showdec, decimal) ==
    IF i > Len(ds)
    THEN [out |-> out, decpos |-> decpos, decimals |-> decimals,
          lastnz |-> lastnz, d |-> IF i > 1 THEN ds[i - 1] ELSE 0,
          rest |-> FALSE]
    ELSE LET d == ds[i] IN
         IF decimals <= 0
         THEN [out |-> out, decpos |-> decpos, decimals |-> decimals,
               lastnz |-> lastnz, d |-> d, rest |-> i < Len(ds)]
         ELSE LET out1    == Append(out, DigitChar(d))
                  decpos1 == decpos - 1
                  lastnz1 == IF decpos1 >= 0 \/ d # 0 THEN Len(out1)
                                                      ELSE lastnz
                  more    == i < Len(ds) \/ ~sigmode \/ decpos1 > 0
                  putdec  == decpos1 = 0 /\ (more \/ showdec)
                  out2    == IF putdec THEN Append(out1, decimal) ELSE out1
                  lastnz2 == IF putdec THEN Len(out2) ELSE lastnz1
                  left    == IF decpos1 < 0 \/ sigmode THEN decimals - 1
                                                       ELSE decimals
              IN  ShownDigits(ds, i + 1, out2, decpos1, left, lastnz2,
                              sigmode, showdec, decimal)

\* do .. while (overflow) is left after this many passes at the latest
MaxPasses == 3

\* RENDER_BODY(decimal) on the stack: the passes of the do .. while (overflow)
\* loop from pass number pass on.  st holds DisplayMode ("Sig" for Std),
\* DisplayDigits, StandardExponent, TrailingDecimal,
\* MinimumSignificantDigits and DecimalSeparator.  Gives the text and the
\* number of passes
RECURSIVE ShownPass(_, _, _, _, _, _)
ShownPass(d, sign, exponent, overflow, pass, st) ==
    LET nkigits  == Len(d.k)
        mexp     == nkigits * 3
        realexp0 == exponent - 1
        sigmode  == st.mode = "Sig"
        fixmode  == st.mode = "Fix"
        roundup  == nkigits > 0 /\ (d.k[nkigits] % 10) >= 5
        shown    == st.digits + realexp0 + (IF roundup THEN 1 ELSE 0)
        minfix   == IF st.minfix > mexp + 1 THEN mexp + 1 ELSE st.minfix
        minexp   == IF st.digits < st.std_exp THEN st.digits ELSE st.std_exp
        hasexp   == IF st.mode = "Sci" THEN TRUE
                    ELSE IF realexp0 >= 0 THEN realexp0 >= st.std_exp
                    ELSE IF fixmode THEN st.minfix >= 0 /\ shown < minfix
                    ELSE mexp - realexp0 - 1 >= minexp
        realexp  == IF st.mode # "Sci" /\ realexp0 < 0 /\ fixmode
                       /\ st.minfix < 0 /\ shown < 0
                    THEN -st.digits ELSE realexp0
        decpos0  == IF st.mode # "Sci" /\ realexp0 >= 0 /\ ~hasexp
                    THEN realexp + 1 ELSE 1
        lead     == ~hasexp /\ realexp < 0
        nzero    == IF lead THEN -(realexp + 1) ELSE 0
        out0     == IF lead
                    THEN sign \o <<"0", st.decimal>> \o ZeroChars(nzero)
                    ELSE sign
        decpos1  == IF lead THEN decpos0 - 1 ELSE decpos0
        ds       == IF overflow THEN <<1>> ELSE KigitDigits(d.k)
    IN  With(ShownDigits(ds, 1, out0, decpos1, st.digits - nzero, Len(out0),
                         sigmode, st.showdec, st.decimal),
          LAMBDA em :
            With(RenderRound(em.out, Len(em.out), Len(sign) + 1, sigmode,
                             em.decimals, em.decpos, st.decimal),
              LAMBDA rd :
                LET round    == em.rest /\ em.d >= 5
                    out1     == IF round THEN rd.out
                                ELSE IF sigmode /\ Len(em.out) > em.lastnz
                                THEN SubSeq(em.out, 1, em.lastnz)
                                ELSE em.out
                    decpos2  == IF round THEN rd.decpos ELSE em.decpos
                    decimal1 == IF round THEN rd.decimals ELSE em.decimals
                    decimal2 == IF sigmode
                                THEN IF decpos2 > 0 THEN decpos2 ELSE 0
                                ELSE IF fixmode /\ decpos2 > 0
                                THEN st.digits + decpos2
                                ELSE decimal1
                    out2     == RenderZeroes(out1, decpos2, decimal2,
                                             st.showdec, st.decimal)
                IN  IF round /\ rd.rounding /\ pass < MaxPasses
                    THEN ShownPass(d, sign, exponent + 1, TRUE, pass + 1, st)
                    ELSE [out    |-> IF hasexp
                                     THEN out2 \o <<"E">> \o IntText(realexp)
                                     ELSE out2,
                          passes |-> pass]))

\* RENDER_BODY(decimal) on the stack, under the display settings st
RenderShown(d, st) ==
    ShownPass(d, IF d.neg THEN <<"-">> ELSE <<>>, d.exp, FALSE, 1, st)

\* Display settings under which a number is shown
ShownSettings ==
    [mode : {"Sig", "Fix", "Sci"}, digits : {1, 2, 3}, std_exp : {2, 9},
     showdec : BOOLEAN, minfix : {-1, 3}, decimal : {"."}]

\* Display settings under which a number is edited
EditSettings ==
    [std_exp : {1, 9}, showdec : BOOLEAN, decimal : {".", ","}]

\* Texts given to the parser
ParseTexts ==
    {<<"0">>, <<"1">>, <<"1", "0", "0", "0">>, <<"1", ".", "5">>,
     <<"-", "1", ".", "2", "5">>, <<"0", ".", "0", "5">>,
     <<"1", "2", "3", "4", ".", "5">>, <<"1", "2", "E", "-", "3">>,
     <<"1", "E">>, <<".">>, <<"+", "2", ",", "5", "e", "2">>}

-----------------------------------------------------------------------------
(* Machine words: ularge is 64 bits wide.  A word is held as its eight     *)
(* bytes, lowest first, so that products and sums wrap as the machine's.   *)

WordBytes == 8

Word == [1..WordBytes -> 0..255]

\* The word of a small natural number n
RECURSIVE WordDigits(_, _)
WordDigits(n, i) ==
    IF i > WordBytes THEN <<>> ELSE <<n % 256>> \o WordDigits(n \div 256, i + 1)
ToWord(n) == [i \in 1..WordBytes |-> WordDigits(n, 1)[i]]

WordZero == ToWord(0)
\* ~0ULL
WordMax  == [i \in 1..WordBytes |-> 255]

\* Sum of the byte products of a and b that land on byte k
RECURSIVE WordMulCol(_, _, _, _)
WordMulCol(a, b, k, i) ==
    IF i > k THEN 0 ELSE a[i] * b[k + 1 - i] + WordMulCol(a, b, k, i + 1)

\* a * b on ularge: the low 64 bits of the product
RECURSIVE WordMulFrom(_, _, _, _)
WordMulFrom(a, b, k, carry) ==
    IF k > WordBytes THEN <<>>
    ELSE LET t == WordMulCol(a, b, k, 1) + carry
         IN  <<t % 256>> \o WordMulFrom(a, b, k + 1, t \div 256)
WordMul(a, b) == LET p == WordMulFrom(a, b, 1, 0) IN [i \in 1..WordBytes |-> p[i]]

\* a + b on ularge: the low 64 bits of the sum
RECURSIVE WordAddFrom(_, _, _, _)
WordAddFrom(a, b, k, carry) ==
    IF k > WordBytes THEN <<>>
    ELSE LET t == a[k] + b[k] + carry
         IN  <<t % 256>> \o WordAddFrom(a, b, k + 1, t \div 256)
WordAdd(a, b) == LET p == WordAddFrom(a, b, 1, 0) IN [i \in 1..WordBytes |-> p[i]]

\* a < b on ularge
RECURSIVE WordLessFrom(_, _, _)
WordLessFrom(a, b, k) ==
    IF k < 1 THEN FALSE
    ELSE IF a[k] # b[k] THEN a[k] < b[k]
    ELSE WordLessFrom(a, b, k - 1)
WordLess(a, b) == WordLessFrom(a, b, WordBytes)

\* a / n and a % n on ularge for a small n: <<quotient bytes from byte k
\* down, remainder>>, given the remainder rem of the bytes above k
RECURSIVE WordDivFrom(_, _, _, _)
WordDivFrom(a, n, k, rem) ==
    IF k < 1 THEN <<<<>>, rem>>
    ELSE LET t    == rem * 256 + a[k]
             rest == WordDivFrom(a, n, k - 1, t % n)
         IN  <<rest[1] \o <<t \div n>>, rest[2]>>
WordDiv(a, n) == LET q == WordDivFrom(a, n, WordBytes, 0)[1] IN [i \in 1..WordBytes |-> q[i]]
WordMod(a, n) == WordDivFrom(a, n, WordBytes, 0)[2]

\* -a on large: two's complement
WordNeg(a) == WordAdd([i \in 1..WordBytes |-> 255 - a[i]], ToWord(1))

\* The decimal digits of a word, as printed
RECURSIVE WordText(_)
WordText(a) ==
    IF WordDiv(a, 10) = WordZero THEN <<DigitChar(WordMod(a, 10))>>
    ELSE Append(WordText(WordDiv(a, 10)), DigitChar(WordMod(a, 10)))

\* The decimal digits of a word read as the signed large
LargeText(a) ==
    IF a[WordBytes] >= 128 THEN <<"-">> \o WordText(WordNeg(a)) ELSE WordText(a)

\* decimal::as_unsigned: while (xp) { if (xp & 1) pow *= mul; mul = mul * mul;
\* xp /= 2; }
RECURSIVE AsUnsignedPow(_, _, _)
AsUnsignedPow(xp, pow, mul) ==
    IF xp = 0 THEN pow
    ELSE AsUnsignedPow(xp \div 2,
                       IF xp % 2 = 1 THEN WordMul(pow, mul) ELSE pow,
                       WordMul(mul, mul))

\* decimal::as_unsigned: the loop over the kigits from index m on
RECURSIVE AsUnsignedSum(_, _, _, _)
AsUnsignedSum(x, m, pow, result) ==
    IF ~(m < Len(x.k) /\ pow # WordZero) THEN result
    ELSE LET d    == kigit(x, m)
             next == WordAdd(result, WordDiv(WordMul(ToWord(d), pow), 1000))
         IN  IF WordLess(next, result) THEN WordMax
             ELSE AsUnsignedSum(x, m + 1, WordDiv(pow, 1000), next)

\* decimal::as_unsigned(magnitude)
as_unsigned(x, magnitude) ==
    IF x.exp < 0 \/ (~magnitude /\ x.neg) THEN WordZero
    ELSE LET pow == AsUnsignedPow(x.exp, ToWord(1), ToWord(10))
         IN  IF pow = WordZero THEN WordMax
             ELSE AsUnsignedSum(x, 0, pow, WordZero)

\* decimal::as_integer()
as_integer(x) ==
    LET result == as_unsigned(x, TRUE)
    IN  IF x.neg THEN WordNeg(result) ELSE result

\* The loop machine at rest while decimals are computed
InitLoopIdle ==
    /\ kind = "none" /\ pc = "done" /\ stack = <<>> /\ r = "OK"
    /\ err = "none" /\ interrupted = FALSE
    /\ cnt = 0 /\ last = 0 /\ incr = 1
    /\ astep = NullObj /\ skip = FALSE /\ acnt = 0 /\ alast = 0
    /\ local0 = NullObj
    /\ stack0 = <<>> /\ bodyRuns = 0 /\ condRuns = 0 /\ iter = <<>>
    /\ truth = "none" /\ sawInt = FALSE
    /\ refCnt = 0 /\ refDiverged = FALSE /\ switched = FALSE

InitDec ==
    /\ InitLoopIdle
    /\ InitSysIdle
    /\ dx \in Decimals
    /\ dy \in Decimals
    /\ dprec \in Precisions
    /\ dop = "none"
    /\ dres = DecZero
    /\ dint = 0
    /\ dtext = <<>>

\* One operation is applied to the operands
DecApply(op, res) ==
    /\ dop = "none"
    /\ dop' = op
    /\ dres' = res
    /\ UNCHANGED <<dx, dy, dprec, dint, dtext, loopVars, histVars,
                   sysVars, objVars, extVars>>

\* One operation with an integer result is applied to the operands
DecApplyInt(op, n) ==
    /\ dop = "none"
    /\ dop' = op
    /\ dint' = n
    /\ UNCHANGED <<dx, dy, dprec, dres, dtext, loopVars, histVars,
                   sysVars, objVars, extVars>>

DecAdd   == DecApply("add", decimal_add(dx, dy, dprec))
DecSub   == DecApply("sub", decimal_sub(dx, dy, dprec))
DecMul   == DecApply("mul", decimal_mul(dx, dy, dprec))
DecPlus  == DecApply("plus", operator_plus(dx, dy, dprec))
\* (x + y) - y
DecPlusMinus ==
    DecApply("plusminus",
             operator_minus(operator_plus(dx, dy, dprec), dy, dprec))

DecCompare == DecApplyInt("compare", decimal_compare(dx, dy))

\* A text is parsed; a text that gives no object leaves dres alone
DecParse ==
    /\ dop = "none"
    /\ \E t \in ParseTexts, inEquation \in BOOLEAN, tooMany \in BOOLEAN :
          LET p == ParseDecimal(t, inEquation, tooMany, dprec) IN
          /\ dtext' = t
          /\ dop' = IF p[1] = "OK" THEN "parse" ELSE "noparse"
          /\ dres' = IF p[1] = "OK" THEN p[2] ELSE dres
    /\ UNCHANGED <<dx, dy, dprec, dint, loopVars, histVars,
                   sysVars, objVars, extVars>>

\* x is rendered for editing or for a saved file, and the text parsed back
DecRenderParse ==
    /\ dop = "none"
    /\ \E raw \in BOOLEAN, ds \in EditSettings, tooMany \in BOOLEAN :
          LET t == RenderDecimal(dx, raw, ds)
              p == ParseDecimal(t, FALSE, tooMany, dprec)
          IN  /\ dtext' = t
              /\ dop' = IF p[1] = "OK" THEN "reparse" ELSE "noreparse"
              /\ dres' = IF p[1] = "OK" THEN p[2] ELSE dres
    /\ UNCHANGED <<dx, dy, dprec, dint, loopVars, histVars,
                   sysVars, objVars, extVars>>

NextDec ==
    \/ DecAdd
    \/ DecSub
    \/ DecMul
    \/ DecPlus
    \/ DecPlusMinus
    \/ DecCompare
    \/ DecParse
    \/ DecRenderParse

SpecDec == InitDec /\ [][NextDec]_vars

\* Decimals shown on the stack: mantissas of nines and others, around 1
ShownMantissas == {<<999>>, <<999, 900>>, <<999, 990>>, <<995>>, <<994>>,
                   <<949>>, <<950>>, <<100>>, <<123, 456>>, <<500>>}

ShownDecimals ==
    {Dec(n, e, m) : n \in BOOLEAN, e \in -1..4, m \in ShownMantissas}

InitShown ==
    /\ InitLoopIdle
    /\ InitSysIdle
    /\ dx \in ShownDecimals
    /\ dy = DecZero
    /\ dprec \in {6}
    /\ dop = "none"
    /\ dres = DecZero
    /\ dint = 0
    /\ dtext = <<>>

\* x is rendered on the stack; dint keeps the number of passes it took
DecRenderShown ==
    /\ dop = "none"
    /\ \E st \in ShownSettings :
       \E shown \in {RenderShown(dx, st)} :
          /\ dop' = st.mode
          /\ dtext' = shown.out
          /\ dint' = shown.passes
    /\ UNCHANGED <<dx, dy, dprec, dres, loopVars, histVars,
                   sysVars, objVars, extVars>>

NextShown == DecRenderShown

SpecShown == InitShown /\ [][NextShown]_vars

-----------------------------------------------------------------------------
(* decimal::round_to_zero, decimal::to_fraction, and the decimals made     *)
(* from a machine integer                                                  *)

\* rt.make<decimal>(0) and rt.make<decimal>(1)
DecOne == Dec(FALSE, 1, <<100>>)

\* decimal::is_zero: the normal zero has no kigits
is_zero(x) == Len(x.k) = 0

\* decimal::is_negative
is_negative(x) == x.neg /\ Len(x.k) # 0

\* decimal::round_to_zero(to_exp)
round_to_zero(x, to_exp) ==
    LET zeroed  == (x.exp - to_exp) \div 3
        nkigits == Len(x.k) - zeroed
        rm      == (x.exp - to_exp) % 3
    IN  IF x.exp < to_exp THEN DecZero
        ELSE IF zeroed > Len(x.k) THEN DecZero
        ELSE Dec(x.neg, x.exp,
                 [i \in 1..nkigits |->
                    IF i = nkigits
                    THEN IF rm = 0 THEN 0
                         ELSE IF rm = 1 THEN x.k[i] - (x.k[i] % 100)
                         ELSE x.k[i] - (x.k[i] % 10)
                    ELSE x.k[i]])

\* The first three kigits of k read as one integer
DivMantissa(k) ==
    (IF Len(k) >= 1 THEN k[1] * 1000000 ELSE 0)
    + (IF Len(k) >= 2 THEN k[2] * 1000 ELSE 0)
    + (IF Len(k) >= 3 THEN k[3] ELSE 0)

\* <<(10 * rem) \div b, (10 * rem) % b>> for rem < b, by i additions of rem
RECURSIVE TenTimes(_, _, _, _, _)
TenTimes(rem, b, i, q, t) ==
    IF i = 0 THEN <<q, t>>
    ELSE IF t + rem >= b THEN TenTimes(rem, b, i - 1, q + 1, t + rem - b)
    ELSE TenTimes(rem, b, i - 1, q, t + rem)

\* The next n digits of the quotient rem / b, rem < b
RECURSIVE DivDigits(_, _, _)
DivDigits(rem, b, n) ==
    IF n = 0 THEN <<>>
    ELSE With(TenTimes(rem, b, 10, 0, 0),
              LAMBDA qt : <<qt[1]>> \o DivDigits(qt[2], b, n - 1))

\* The digits ds, three by three, as rs kigits
DigitKigits(ds, rs) ==
    [i \in 0..(rs - 1) |->
        100 * ds[3 * i + 1] + 10 * ds[3 * i + 2] + ds[3 * i + 3]]

\* decimal::div(x, y) on normalized operands of at most three kigits: the
\* quotient cut after the kigits the precision keeps.  <<"OK", quotient>>,
\* or <<"ERROR", 0>> for a division by zero
decimal_div(x, y, prec) ==
    LET a    == DivMantissa(x.k)
        b    == DivMantissa(y.k)
        ps   == (prec + 2) \div 3
        q0   == a \div b
        e    == IF q0 > 0 THEN x.exp - y.exp + 1 ELSE x.exp - y.exp
    IN  IF b = 0 THEN <<"ERROR", DecZero>>
        ELSE IF a = 0 THEN <<"OK", DecZero>>
        ELSE With(IF q0 > 0 THEN <<q0>> \o DivDigits(a % b, b, 3 * ps - 1)
                            ELSE DivDigits(a % b, b, 3 * ps),
               LAMBDA ds :
                 With(DigitKigits(ds, ps),
                   LAMBDA rb :
                     <<"OK", MakeDecimal(x.neg # y.neg, e,
                                         StripTrailing(rb, ps), rb)>>))

\* decimal::to_fraction: one pass of the loop once the quotient next is known
ToFractionStep(st, next, prec) ==
    With(round_to_zero(next, 0),
      LAMBDA whole_part :
        With(<<decimal_mul(whole_part, st.v1num, prec),
               decimal_mul(whole_part, st.v1den, prec)>>,
          LAMBDA prod :
            [decimal_part |-> decimal_sub(next, whole_part, prec),
             v1num |-> decimal_add(prod[1], st.v2num, prec),
             v2num |-> st.v1num,
             v1den |-> decimal_add(prod[2], st.v2den, prec),
             v2den |-> st.v1den,
             failed |-> FALSE]))

\* decimal::to_fraction: the loop.  st, the value of st0, holds decimal_part,
\* v1num, v1den, v2num, v2den, and failed when a division gave no result
RECURSIVE ToFractionLoop(_, _, _, _)
ToFractionLoop(count, decimals, prec, st0) ==
    With(st0,
      LAMBDA st :
        IF count = 0 \/ st.failed THEN st
        ELSE IF is_zero(st.decimal_part) THEN st
        ELSE IF -st.decimal_part.exp > decimals THEN st
        ELSE With(decimal_div(DecOne, st.decimal_part, prec),
               LAMBDA quot :
                 IF quot[1] # "OK" THEN [st EXCEPT !.failed = TRUE]
                 ELSE ToFractionLoop(count - 1, decimals, prec,
                                     ToFractionStep(st, quot[2], prec))))

\* decimal::to_fraction(count, decimals) under precision prec: the sign, the
\* numerator and the denominator of the result
to_fraction(x, count, decimals, prec) ==
    LET neg    == is_negative(x)
        num    == IF neg THEN decimal_neg(x) ELSE x
        maxdec == prec - 3
    IN  With(round_to_zero(num, 0),
          LAMBDA whole_part :
            With(ToFractionLoop(count,
                   IF decimals > maxdec THEN maxdec ELSE decimals,
                   prec,
                   [decimal_part |-> decimal_sub(num, whole_part, prec),
                    v1num |-> whole_part, v1den |-> DecOne,
                    v2num |-> DecOne, v2den |-> DecZero,
                    failed |-> FALSE]),
              LAMBDA st :
                [neg |-> neg, failed |-> st.failed,
                 numerator   |-> as_unsigned(st.v1num, FALSE),
                 denominator |-> as_unsigned(st.v1den, FALSE)]))

\* The result of to_fraction as printed: p, -p, p/q or -p/q
FractionText(f) ==
    (IF f.neg THEN <<"-">> ELSE <<>>)
    \o WordText(f.numerator)
    \o (IF f.denominator = ToWord(1) THEN <<>>
        ELSE <<"/">> \o WordText(f.denominator))

\* Settings.FractionIterations() and Settings.FractionDigits()
FractionIterations == {1, 3, 10}
FractionDigits     == {1, 3, 6}

-----------------------------------------------------------------------------
(***************************************************************************)
(* Promotion of real values to hardware-format decimals (algebraic.cc).    *)
(* A real object is its type, its sign and its magnitude mag; the          *)
(* constructors of decimal32, decimal64 and decimal128 keep sign and       *)
(* magnitude of what they are given.                                       *)
(***************************************************************************)

BID32_MAXDIGITS == 7
BID64_MAXDIGITS == 16

Real(t, n, g) == [ty |-> t, neg |-> n, mag |-> g]

\* rt.make<decimal32 / decimal64 / decimal128>(type, value [, negative])
MakeBid(type, n, g) == Real(type, n, g)

\* bool algebraic::real_promotion(algebraic_g &x, object::id type): whether
\* it succeeded, and x afterwards
real_promotion_to(x, type) ==
    LET bid  == type \in {"decimal32", "decimal64", "decimal128"}
        same == [ok |-> TRUE, x |-> x]
        fail == [ok |-> FALSE, x |-> x]
    IN  IF x.ty = "null" THEN fail
        ELSE IF x.ty = type THEN same
        ELSE IF x.ty = "integer"
        THEN IF bid THEN [ok |-> TRUE, x |-> MakeBid(type, FALSE, x.mag)]
                    ELSE fail
        ELSE IF x.ty = "neg_integer"
        THEN IF bid THEN [ok |-> TRUE, x |-> MakeBid(type, TRUE, x.mag)]
                    ELSE fail
        ELSE IF x.ty \in {"bignum", "neg_bignum"}
        THEN IF bid THEN [ok |-> TRUE, x |-> MakeBid(type, x.neg, x.mag)]
                    ELSE fail
        ELSE IF x.ty \in {"fraction", "neg_fraction"}
        THEN IF bid THEN [ok |-> TRUE, x |-> MakeBid(type, x.neg, x.mag)]
                    ELSE fail
        ELSE IF x.ty = "decimal32"
        THEN IF type \in {"decimal64", "decimal128"}
             THEN [ok |-> TRUE, x |-> MakeBid(type, x.neg, x.mag)]
             ELSE fail
        ELSE IF x.ty = "decimal64"
        THEN IF type = "decimal128"
             THEN [ok |-> TRUE, x |-> MakeBid(type, x.neg, x.mag)]
             ELSE fail
        ELSE fail

\* the type selected by Settings.precision
PromotionType(prec) ==
    IF prec > BID64_MAXDIGITS THEN "decimal128"
    ELSE IF prec > BID32_MAXDIGITS THEN "decimal64"
    ELSE "decimal32"

\* object::id algebraic::real_promotion(algebraic_g &x): the id returned,
\* and x afterwards
real_promotion(x, prec) ==
    LET p == real_promotion_to(x, PromotionType(prec))
    IN  [id |-> IF p.ok THEN PromotionType(prec) ELSE "object", x |-> p.x]

\* Types of the exact real values, positive and negative
ExactPositive == {"integer", "bignum", "fraction", "big_fraction"}
ExactNegative ==
    {"neg_integer", "neg_bignum", "neg_fraction", "neg_big_fraction"}

\* Magnitudes: <<numerator, denominator>>
PromotedMagnitudes == {<<0, 1>>, <<1, 1>>, <<7, 1>>, <<1, 3>>, <<22, 7>>}

\* Real values given to real_promotion
PromotedReals ==
    {Real(t, FALSE, g) : t \in ExactPositive \cup {"decimal32", "decimal64"},
                         g \in PromotedMagnitudes}
    \cup {Real(t, TRUE, g) : t \in ExactNegative, g \in PromotedMagnitudes}

InitPromotion ==
    /\ InitLoopIdle
    /\ InitSysIdle
    /\ dx \in {v \in PromotedReals :
                 v.ty \in {"integer", "neg_integer", "bignum", "neg_bignum"}
                 => v.mag[2] = 1}
    /\ dy = DecZero
    /\ dprec \in {3, BID32_MAXDIGITS, BID32_MAXDIGITS + 1, BID64_MAXDIGITS,
                  BID64_MAXDIGITS + 1, BID128_MAXDIGITS}
    /\ dop = "none"
    /\ dres = DecZero
    /\ dint = 0
    /\ dtext = <<>>

\* x is promoted under the precision of the settings; dres is x afterwards
\* and dtext the id returned
DecRealPromotion ==
    /\ dop = "none"
    /\ dop' = "real_promotion"
    /\ dres' = real_promotion(dx, dprec).x
    /\ dtext' = real_promotion(dx, dprec).id
    /\ UNCHANGED <<dx, dy, dprec, dint, loopVars, histVars,
                   sysVars, objVars, extVars>>

NextPromotion == DecRealPromotion

SpecPromotion == InitPromotion /\ [][NextPromotion]_vars

-----------------------------------------------------------------------------
(***************************************************************************)
(* Decimal objects in memory (decimal.h, SIZE_BODY of decimal.cc).         *)
(* An object is its type tag followed by its payload; heap holds the       *)
(* payload bytes and the bytes that follow them in memory.  The bytes a    *)
(* constructor does not write keep the value they had before.              *)
(***************************************************************************)

\* leb128size(type): the tag of a decimal is one byte
TagSize == 1

RECURSIVE Pow2(_)
Pow2(n) == IF n <= 0 THEN 1 ELSE 2 * Pow2(n - 1)

RECURSIVE Leb128(_)
\* leb128(p, n) for an unsigned n: 7 bits per byte, high bit continuation
Leb128(n) ==
    IF n < 128 THEN <<n>> ELSE <<128 + (n % 128)>> \o Leb128(n \div 128)

RECURSIVE Leb128Signed(_)
\* leb128(p, v) for a signed v: the last byte carries the sign in bit 6
Leb128Signed(v) ==
    LET b    == v % 128
        rest == (v - b) \div 128
    IN  IF (rest = 0 /\ b < 64) \/ (rest = -1 /\ b >= 64)
        THEN <<b>>
        ELSE <<128 + b>> \o Leb128Signed(rest)

leb128size(n)       == Len(Leb128(n))
leb128sizeSigned(v) == Len(Leb128Signed(v))

RECURSIVE Leb128Read(_, _, _)
\* leb128<Int>(p): the value read at position p and the position after it
Leb128Read(h, p, weight) ==
    IF p > Len(h) THEN [value |-> 0, next |-> p]
    ELSE IF h[p] < 128 THEN [value |-> h[p] * weight, next |-> p + 1]
    ELSE LET more == Leb128Read(h, p + 1, weight * 128)
         IN  [value |-> (h[p] % 128) * weight + more.value,
              next  |-> more.next]

\* the bytes of the packed kigits: (nkigits * 10 + 7) / 8
KigitBytes(n) == (n * 10 + 7) \div 8

\* kigit(base, index, value) keeping the whole of both bytes
KigitWriteNoMask(h, p, index, value) ==
    LET at   == p + 1 + (index * 10) \div 8
        sh   == (index % 4) * 2 + 2
        low  == (8 - sh) % 8
        b0   == (h[at] + (value \div Pow2(sh))) % 256
        b1   == (h[at + 1] + ((value * Pow2(low)) % 256)) % 256
    IN  [h EXCEPT ![at] = b0, ![at + 1] = b1]

\* kigit(base, index, value): the 10 bits of value are written over two bytes
\* of h, p bytes of h coming before base
KigitWrite(h, p, index, value) ==
    LET at   == p + 1 + (index * 10) \div 8
        sh   == (index % 4) * 2 + 2
        keep == Pow2(10 - sh)
        low  == (8 - sh) % 8
        b0   == (((h[at] \div keep) * keep) % 256) + (value \div Pow2(sh))
        b1   == (h[at + 1] % Pow2(low)) + ((value * Pow2(low)) % 256)
    IN  [h EXCEPT ![at] = b0, ![at + 1] = b1]

RECURSIVE KigitsFrom(_, _, _, _)
\* the loop writing kigits i.. of k
KigitsFrom(h, p, k, i) ==
    IF i > Len(k) THEN h
    ELSE KigitsFrom(KigitWrite(h, p, i - 1, k[i]), p, k, i + 1)

\* kigit(base, index): the kigit read back
KigitRead(h, p, index) ==
    LET at == p + 1 + (index * 10) \div 8
        sh == (index % 4) * 2 + 2
    IN  (h[at] * Pow2(sh) + h[at + 1] \div Pow2(8 - sh)) % 1024

\* the buffer of packed kigits a caller hands over as gcbytes
PackKigits(k) ==
    KigitsFrom([i \in 1..KigitBytes(Len(k)) |-> 0], 0, k, 1)

\* required_memory(type, exp, n, ...), the same for gcbytes and gcp<kint>
required_memory(exp, n) ==
    TagSize + leb128sizeSigned(exp) + leb128size(n) + KigitBytes(n)

\* memory as found by a constructor: the payload reserved and the byte after
FreshHeap(size, fill) == [i \in 1..size |-> fill]

\* bytes w written over h from position p on
Overwrite(h, p, w) ==
    [i \in 1..Len(h) |-> IF i >= p /\ i < p + Len(w) THEN w[i - p + 1] ELSE h[i]]

\* decimal(id type, int exp, size_t nkig, gcbytes kig)
DecimalFromBytes(exp, nkig, kig, h) ==
    LET e == Leb128Signed(exp)
    IN  Overwrite(Overwrite(h, 1, e), 1 + Len(e), SubSeq(kig, 1, KigitBytes(nkig)))

\* decimal(id type, int exp, size_t nkigs, gcp<kint> kigs)
DecimalFromKigits(exp, nkigs, kigs, h) ==
    LET e == Leb128Signed(exp)
        n == Leb128(nkigs)
    IN  KigitsFrom(Overwrite(Overwrite(h, 1, e), 1 + Len(e), n),
                   Len(e) + Len(n), SubSeq(kigs, 1, nkigs), 1)

\* SIZE_BODY(decimal): the size computed from the bytes of the object
SIZE(h) ==
    LET exp     == Leb128Read(h, 1, 1)
        nkigits == Leb128Read(h, exp.next, 1)
    IN  TagSize + (nkigits.next - 1) + KigitBytes(nkigits.value)

RECURSIVE IntDigits(_)
\* the digits of value: while (copy) in the constructor and required_memory
IntDigits(value) == IF value = 0 THEN 0 ELSE 1 + IntDigits(value \div 10)

RECURSIVE IntScale(_, _, _)
\* mul and div after the first loop of the constructor
IntScale(copy, mul, div) ==
    IF copy = 0 THEN <<mul, div>>
    ELSE IF mul > 1 THEN IntScale(copy \div 10, mul \div 10, div)
    ELSE IntScale(copy \div 10, mul, div * 10)

RECURSIVE IntKigits(_, _, _, _, _, _)
\* the loop writing the kigits of value; a division by zero either traps or
\* gives the quotient 0
IntKigits(value, mul, div, i, nkigits, trap) ==
    IF i >= nkigits THEN [fault |-> FALSE, k |-> <<>>]
    ELSE IF div = 0 /\ trap THEN [fault |-> TRUE, k |-> <<>>]
    ELSE LET q    == IF div = 0 THEN 0 ELSE (value * mul) \div div
             more == IntKigits(value, mul, div \div 1000, i + 1, nkigits, trap)
         IN  [fault |-> more.fault, k |-> <<q % 1000>> \o more.k]

\* decimal(id type, Int value, int exp = 0)
DecimalFromInt(value, exp0, trap, h) ==
    LET s       == IntScale(value, 1000, 1)
        exp     == exp0 + IntDigits(value)
        nkigits == (exp + 2) \div 3
        ks      == IntKigits(value, s[1], s[2], 0, nkigits, trap)
    IN  [fault |-> ks.fault, exp |-> exp, k |-> ks.k,
         heap  |-> IF ks.fault THEN h
                   ELSE DecimalFromKigits(exp, nkigits, ks.k, h)]

\* required_memory(id type, Int value, int exp = 0)
required_memory_int(value, exp0) ==
    LET iexp == IntDigits(value)
    IN  required_memory(exp0 + iexp, (iexp + 2) \div 3)

\* bytes found in memory before an object is built
HeapFill == {0, 85}

\* machine integers handed to the constructor
MachineInts == {0, 1, 7, 12, 100, 123, 999, 1000, 1234, 12345, 100000,
                123456, 999999}

-----------------------------------------------------------------------------
(* Conversions of a decimal x; the result, a machine word, is kept as the  *)
(* text of its digits                                                      *)

ConvMantissas ==
    Mantissas \cup {<<125>>, <<250>>, <<123, 400>>,
                    <<184, 467, 440, 737, 95, 516, 150>>,
                    <<922, 337, 203, 685, 477, 580, 700>>}

ConvExponents == {-1, 0, 1, 2, 4, 18, 19, 20, 21, 64}

ConvDecimals ==
    {Dec(n, e, m) : n \in BOOLEAN, e \in ConvExponents, m \in ConvMantissas}
    \cup {DecZero}

InitConv ==
    /\ InitLoopIdle
    /\ InitSysIdle
    /\ dx \in ConvDecimals
    /\ dy = DecZero
    /\ dprec \in Precisions
    /\ dop = "none"
    /\ dres = DecZero
    /\ dint = 0
    /\ dtext = <<>>

\* One conversion to a machine word is applied to x
DecApplyWord(op, t) ==
    /\ dop = "none"
    /\ dop' = op
    /\ dtext' = t
    /\ UNCHANGED <<dx, dy, dprec, dres, dint, loopVars, histVars,
                   sysVars, objVars, extVars>>

DecAsUnsigned  == DecApplyWord("as_unsigned", WordText(as_unsigned(dx, FALSE)))
DecAsMagnitude == DecApplyWord("as_magnitude", WordText(as_unsigned(dx, TRUE)))
DecAsInteger   == DecApplyWord("as_integer", LargeText(as_integer(dx)))

\* x is converted to a fraction; dint keeps the fraction digits asked for
DecToFraction ==
    /\ dop = "none"
    /\ \E count \in FractionIterations, decimals \in FractionDigits :
       \E f \in {to_fraction(dx, count, decimals, dprec)} :
          /\ dop' = IF f.failed THEN "no_fraction" ELSE "to_fraction"
          /\ dtext' = IF f.failed THEN dtext ELSE FractionText(f)
          /\ dint' = decimals
    /\ UNCHANGED <<dx, dy, dprec, dres, loopVars, histVars,
                   sysVars, objVars, extVars>>

\* An object is built from x by the constructor taking packed bytes
DecMakeBytes ==
    /\ dop = "none"
    /\ dop' = "make_bytes"
    /\ \E fill \in HeapFill :
          LET n    == Len(dx.k)
              size == required_memory(dx.exp, n)
          IN  /\ reserved' = size
              /\ heap' = DecimalFromBytes(dx.exp, n, PackKigits(dx.k),
                                          FreshHeap(size, fill))
    /\ UNCHANGED <<dx, dy, dprec, dres, dint, dtext, loopVars, histVars,
                   sysVars, heap0, kidx, kval, extVars>>

\* An object is built from x by the constructor taking kigits
DecMakeKigits ==
    /\ dop = "none"
    /\ dop' = "make_kigits"
    /\ \E fill \in HeapFill :
          LET n    == Len(dx.k)
              size == required_memory(dx.exp, n)
          IN  /\ reserved' = size
              /\ heap' = DecimalFromKigits(dx.exp, n, dx.k,
                                           FreshHeap(size, fill))
    /\ UNCHANGED <<dx, dy, dprec, dres, dint, dtext, loopVars, histVars,
                   sysVars, heap0, kidx, kval, extVars>>

\* An object is built from a machine integer; dint keeps the integer
DecMakeInt ==
    /\ dop = "none"
    /\ \E value \in MachineInts, trap \in BOOLEAN, fill \in HeapFill :
          LET size == required_memory_int(value, 0)
              d    == DecimalFromInt(value, 0, trap, FreshHeap(size, fill))
          IN  /\ dop' = IF d.fault THEN "int_fault" ELSE "make_int"
              /\ dint' = value
              /\ dres' = IF d.fault THEN dres ELSE Dec(FALSE, d.exp, d.k)
              /\ reserved' = size
              /\ heap' = d.heap
    /\ UNCHANGED <<dx, dy, dprec, dtext, loopVars, histVars,
                   sysVars, heap0, kidx, kval, extVars>>

\* x is rounded to zero at the default exponent, 0
DecRoundToZero ==
    /\ dop = "none"
    /\ dop' = "round_to_zero"
    /\ dres' = round_to_zero(dx, 0)
    /\ UNCHANGED <<dx, dy, dprec, dint, dtext, loopVars, histVars,
                   sysVars, objVars, extVars>>

\* largest kigit array written to
MaxKigits == 5

\* values written, as 10 bits
KigitValues == {0, 1, 341, 511, 512, 682, 999, 1023}

\* bytes of the array before the write
KigitFills == {0, 85, 170, 255}

\* A value is written at an index of a kigit array of n kigits, which is
\* followed in memory by two more bytes
DecKigitWrite ==
    /\ dop = "none"
    /\ dop' = "kigit_write"
    /\ \E n \in 1..MaxKigits, value \in KigitValues, fill \in KigitFills :
       \E index \in 0..(n - 1) :
          /\ reserved' = KigitBytes(n)
          /\ heap0' = FreshHeap(KigitBytes(n) + 2, fill)
          /\ kidx' = index
          /\ kval' = value
          /\ heap' = KigitWrite(FreshHeap(KigitBytes(n) + 2, fill), 0,
                                index, value)
    /\ UNCHANGED <<dx, dy, dprec, dres, dint, dtext, loopVars, histVars,
                   sysVars, extVars>>

\* Kigits written into arrays of every size up to MaxKigits
InitKigit == InitLoopIdle /\ InitSysIdle /\ InitDecIdle

NextKigit == DecKigitWrite

SpecKigit == InitKigit /\ [][NextKigit]_vars

NextConv ==
    \/ DecRoundToZero
    \/ DecAsUnsigned
    \/ DecAsMagnitude
    \/ DecAsInteger
    \/ DecToFraction
    \/ DecMakeBytes
    \/ DecMakeKigits
    \/ DecMakeInt

SpecConv == InitConv /\ [][NextConv]_vars

-----------------------------------------------------------------------------
(* loop::counted seen from the garbage collector: which of its pointers    *)
(* are raw (object_p, algebraic_p, integer_p) and which calls may allocate *)

\* Evaluations of the body followed in one run of loop::counted
MaxBodies == 2

\* The machines outside loop::counted's pointers are left alone
CountedFrame ==
    UNCHANGED <<loopVars, histVars, decVars, sysVars, objVars, disp, prs,
                fs, sn>>

\* A call that may allocate: when the collector runs, objects are moved or
\* reclaimed, and a raw pointer taken before the call no longer points to
\* its object
Collected(raw, collect) ==
    IF collect
    THEN [p \in DOMAIN raw |-> IF raw[p] = "good" THEN "stale" ELSE raw[p]]
    ELSE raw

\* The raw pointers `names` are read
ReadRaw(st, names) ==
    [st EXCEPT !.staleReads = @ \cup {p \in names : st.raw[p] = "stale"}]

\* finish = rt.stack(0), start = rt.stack(1), rt.drop(2), and the choice of
\* the route after as<integer>() / is_real()
CountedEnter ==
    /\ ptrs.pc = "idle"
    /\ \E nm \in BOOLEAN, stp \in BOOLEAN,
          operands \in {"integers", "reals", "other"} :
        LET st == ReadRaw([ptrs EXCEPT !.named = nm, !.stepping = stp,
                                       !.raw["start"] = "good",
                                       !.raw["finish"] = "good"],
                          {"start", "finish"})
        IN  ptrs' = [st EXCEPT
                       !.pc = CASE operands = "integers" -> "fast_head"
                                [] operands = "reals"    -> "real_make"
                                [] OTHER                 -> "done",
                       !.res = IF operands = "other" THEN "ERROR" ELSE "OK"]
    /\ CountedFrame

\* while (!interrupted() && r == OK), and integer::make(cnt) of a named loop
CountedFastHead ==
    /\ ptrs.pc = "fast_head"
    /\ \E intr \in BOOLEAN, collect \in BOOLEAN :
        ptrs' = IF intr
                THEN [ptrs EXCEPT !.pc = "fast_exit"]
                ELSE [ptrs EXCEPT
                        !.pc = "fast_body",
                        !.raw = Collected(@, ptrs.named /\ collect)]
    /\ CountedFrame

\* r = body->evaluate()
CountedFastBody ==
    /\ ptrs.pc = "fast_body"
    /\ \E collect \in BOOLEAN, res \in {"OK", "ERROR"} :
        ptrs' = [ptrs EXCEPT
                   !.raw = Collected(@, collect),
                   !.runs = @ + 1,
                   !.res = res,
                   !.pc = IF res # "OK" THEN "fast_exit"
                          ELSE IF ptrs.stepping THEN "fast_step"
                          ELSE "fast_incr"]
    /\ CountedFrame

\* object_p step = rt.pop() and the test of its type
CountedFastStep ==
    /\ ptrs.pc = "fast_step"
    /\ \E popped \in {"null", "integer", "real", "other"} :
        LET got == [ptrs EXCEPT !.raw["step"] =
                                   IF popped = "null" THEN "null" ELSE "good"]
            st  == IF popped = "null" THEN got ELSE ReadRaw(got, {"step"})
        IN  ptrs' = [st EXCEPT
                       !.pc = CASE popped = "integer" -> "fast_incr"
                                [] popped = "real"    -> "transition"
                                [] OTHER              -> "done",
                       !.res = IF popped \in {"integer", "real"}
                               THEN @ ELSE "ERROR"]
    /\ CountedFrame

\* The switch to the algebraic loop: stp, sta and fin are handles, the raw
\* pointers are assigned from them after the two integer::make
CountedTransition ==
    /\ ptrs.pc = "transition"
    /\ \E collect1 \in BOOLEAN, collect2 \in BOOLEAN :
        LET st  == ReadRaw(ptrs, {"step"})
            raw == Collected(Collected(st.raw, collect1), collect2)
        IN  ptrs' = [st EXCEPT
                       !.raw = [raw EXCEPT !["astep"] = "good",
                                           !["start"] = "good",
                                           !["finish"] = "good"],
                       !.skip = TRUE,
                       !.pc = "slow_enter"]
    /\ CountedFrame

\* cnt += incr; if (cnt > last) break;
CountedFastIncr ==
    /\ ptrs.pc = "fast_incr"
    /\ \E more \in BOOLEAN :
        ptrs' = [ptrs EXCEPT
                   !.pc = IF more /\ ptrs.runs < MaxBodies
                          THEN "fast_head" ELSE "fast_exit"]
    /\ CountedFrame

\* if (!astep) return r;
CountedFastExit ==
    /\ ptrs.pc = "fast_exit"
    /\ ptrs' = [ptrs EXCEPT !.pc = "done"]
    /\ CountedFrame

\* Real operands: sta and fin are handles, stp = integer::make(1), and the
\* raw pointers are assigned from the handles
CountedRealMake ==
    /\ ptrs.pc = "real_make"
    /\ \E collect \in BOOLEAN, made \in BOOLEAN :
        LET st  == ReadRaw(ptrs, {"start", "finish"})
            raw == Collected(st.raw, collect)
        IN  ptrs' = IF made
                    THEN [st EXCEPT
                            !.raw = [raw EXCEPT !["astep"] = "good",
                                                !["start"] = "good",
                                                !["finish"] = "good"],
                            !.pc = "slow_enter"]
                    ELSE [st EXCEPT !.raw = raw, !.res = "ERROR",
                                    !.pc = "done"]
    /\ CountedFrame

\* if (astep): cnt and last are made from start and finish, zero is
\* integer::make(0), and then step is made from astep
CountedSlowEnter ==
    /\ ptrs.pc = "slow_enter"
    /\ \E collect \in BOOLEAN, made \in BOOLEAN :
        LET st    == ReadRaw(ptrs, {"start", "finish"})
            after == ReadRaw([st EXCEPT !.raw = Collected(@, collect)],
                             {"astep"})
        IN  ptrs' = IF made
                    THEN [after EXCEPT !.pc = "slow_head"]
                    ELSE [after EXCEPT !.res = "ERROR", !.pc = "done"]
    /\ CountedFrame

\* One turn of the algebraic loop up to the increment: everything it uses
\* is a handle
CountedSlowHead ==
    /\ ptrs.pc = "slow_head"
    /\ \E intr \in BOOLEAN, collect \in BOOLEAN, res \in {"OK", "ERROR"},
          popped \in BOOLEAN :
        ptrs' = IF intr THEN [ptrs EXCEPT !.pc = "done"]
                ELSE IF ptrs.skip
                THEN [ptrs EXCEPT !.skip = FALSE, !.pc = "slow_incr"]
                ELSE [ptrs EXCEPT
                        !.raw = Collected(@, collect),
                        !.runs = @ + 1,
                        !.res = IF res = "OK" /\ ptrs.stepping /\ ~popped
                                THEN "ERROR" ELSE res,
                        !.pc = IF res = "OK" /\ (~ptrs.stepping \/ popped)
                               THEN "slow_incr" ELSE "done"]
    /\ CountedFrame

\* cnt = cnt + step and the test against last
CountedSlowIncr ==
    /\ ptrs.pc = "slow_incr"
    /\ \E more \in BOOLEAN, collect \in BOOLEAN :
        ptrs' = [ptrs EXCEPT
                   !.raw = Collected(@, collect),
                   !.pc = IF more /\ ptrs.runs < MaxBodies
                          THEN "slow_head" ELSE "done"]
    /\ CountedFrame

InitCounted == InitLoopIdle /\ InitSysIdle /\ InitDecIdle

NextCounted ==
    \/ CountedEnter
    \/ CountedFastHead
    \/ CountedFastBody
    \/ CountedFastStep
    \/ CountedTransition
    \/ CountedFastIncr
    \/ CountedFastExit
    \/ CountedRealMake
    \/ CountedSlowEnter
    \/ CountedSlowHead
    \/ CountedSlowIncr

SpecCounted == InitCounted /\ [][NextCounted]_vars

-----------------------------------------------------------------------------
(* object.h: the type of an object and the dispatch to its handler *)

\* Number of identifiers of ids.tbl, taken large enough for the last tags
\* to need two LEB128 bytes
NUM_IDS == 130

\* enum result
OK    == 0
SKIP  == -1
ERROR == -2
WARN  == -3

\* Tags found at the start of an object, or passed as an id
Tags == {0, 1, 127, 128, NUM_IDS - 1, NUM_IDS, NUM_IDS + 1, 300}

\* enum opcode, in part
Opcodes == {"EVAL", "SIZE", "PARSE", "RENDER", "HELP"}

\* What a handler may return: a result, or a size
HandlerReturns == {OK, SKIP, ERROR, WARN, 5}

DispatchFrame == UNCHANGED <<loopVars, histVars, decVars, sysVars, objVars,
                             ptrs, prs, fs, sn>>

\* id ty = (id) leb128(ptr), on the bytes of an object of that tag
DecodedTag(tag) == Leb128Read(Leb128(tag), 1, 1).value

\* object::type()
ObjectType ==
    /\ \E tag \in Tags :
        \E ty \in {DecodedTag(tag)} :
            disp' = [fn |-> "type", tag |-> tag, op |-> "none",
                     reported |-> (ty > NUM_IDS),
                     ret |-> ty, index |-> -1]
    /\ DispatchFrame

\* static object::run(id type, opcode op, ...)
ObjectRunStatic ==
    /\ \E type \in Tags, op \in Opcodes, res \in HandlerReturns :
        disp' = IF type >= NUM_IDS
                THEN [fn |-> "run(id)", tag |-> type, op |-> op,
                      reported |-> TRUE, ret |-> ERROR, index |-> -1]
                ELSE [fn |-> "run(id)", tag |-> type, op |-> op,
                      reported |-> FALSE, ret |-> res, index |-> type]
    /\ DispatchFrame

\* object::run(opcode op, ...) on an object
ObjectRun ==
    /\ \E tag \in Tags, op \in Opcodes, res \in HandlerReturns :
        \E type \in {DecodedTag(tag)} :
            disp' = IF type >= NUM_IDS
                    THEN [fn |-> "run", tag |-> tag, op |-> op,
                          reported |-> TRUE, ret |-> -1, index |-> -1]
                    ELSE [fn |-> "run", tag |-> tag, op |-> op,
                          reported |-> FALSE, ret |-> res, index |-> type]
    /\ DispatchFrame

InitDispatch == InitLoopIdle /\ InitSysIdle /\ InitDecIdle

NextDispatch ==
    \/ ObjectType
    \/ ObjectRunStatic
    \/ ObjectRun

SpecDispatch == InitDispatch /\ [][NextDispatch]_vars

-----------------------------------------------------------------------------
(* loop::object_parser and loop::object_renderer for the counted loops     *)
(* (START..NEXT, START..STEP, FOR..NEXT, FOR..STEP), on texts that are     *)
(* sequences of characters.  The counted loops have no middle separator    *)
(* and no terminator: both are nullptr in every call modelled here.        *)

KwStart == <<"s", "t", "a", "r", "t">>
KwFor   == <<"f", "o", "r">>
KwNext  == <<"n", "e", "x", "t">>
KwStep  == <<"s", "t", "e", "p">>

\* Lower case and upper case of the letters that occur
CasePairs ==
    {<<"s", "S">>, <<"t", "T">>, <<"a", "A">>, <<"r", "R">>, <<"f", "F">>,
     <<"o", "O">>, <<"n", "N">>, <<"e", "E">>, <<"x", "X">>, <<"p", "P">>,
     <<"i", "I">>}

Lower(c) ==
    IF \E p \in CasePairs : p[2] = c
    THEN (CHOOSE p \in CasePairs : p[2] = c)[1] ELSE c

Upper(c) ==
    IF \E p \in CasePairs : p[1] = c
    THEN (CHOOSE p \in CasePairs : p[1] = c)[2] ELSE c

IsLetter(c) == \E p \in CasePairs : c \in {p[1], p[2]}

utf8_whitespace(c) == c \in {" ", "\n", "\t"}

\* command::is_separator, on the characters that occur
is_separator(c) == utf8_whitespace(c)

\* len <= remaining && strncasecmp(src, sep, len) == 0
\*                  && (len >= remaining || is_separator(src + len))
SeparatorAt(text, src, sep) ==
    LET len       == Len(sep)
        remaining == Len(text) - (src - 1)
    IN  /\ len <= remaining
        /\ \A i \in 1..len : Lower(text[src + i - 1]) = sep[i]
        /\ (len >= remaining \/ is_separator(text[src + len]))

RECURSIVE TokenEnd(_, _)
\* The position after the object that starts at src
TokenEnd(text, src) ==
    IF src > Len(text) \/ utf8_whitespace(text[src]) THEN src
    ELSE TokenEnd(text, src + 1)

\* object::parse(src, length) for the objects that occur in the bodies:
\* integers and symbols; nullptr for anything else
ObjectParse(text, src) ==
    LET stop  == TokenEnd(text, src)
        chars == SubSeq(text, src, stop - 1)
    IN  IF \A i \in 1..Len(chars) : IsDigit(chars[i])
        THEN [type |-> "integer", text |-> chars, length |-> stop - src]
        ELSE IF \A i \in 1..Len(chars) : IsLetter(chars[i])
        THEN [type |-> "symbol", text |-> chars, length |-> stop - src]
        ELSE [type |-> "null", text |-> <<>>, length |-> 0]

\* What object_parser gives back: the result, the error recorded, p.end,
\* and the loop made (its type, its variable, the objects of its body)
ParserOut(res, error, end, type, name, body) ==
    [res |-> res, error |-> error, end |-> end, type |-> type,
     name |-> name, body |-> body]

Skipped == ParserOut(SKIP, "none", 0, "none", <<>>, <<>>)

Failed(error) == ParserOut(ERROR, error, 0, "none", <<>>, <<>>)

RECURSIVE ScanOpen(_, _, _)
\* The scan for the opening separator: the position after it, 0 when the
\* text has something else, -1 when the text ends first
ScanOpen(text, src, open) ==
    IF src > Len(text) THEN -1
    ELSE IF utf8_whitespace(text[src]) THEN ScanOpen(text, src + 1, open)
    ELSE IF SeparatorAt(text, src, open) THEN src + Len(open)
    ELSE 0

\* The alternate closing separator was found while looking for close1
AlternateSameType(st, len, id2) ==
    [st EXCEPT !.src = @ + len, !.found = TRUE]

AlternateMatch(st, len, id2) ==
    [st EXCEPT !.src = @ + len, !.found = TRUE, !.type = id2]

RECURSIVE ScanBody(_, _, _, _, _)
\* The scan for the closing separator, close1 or its alternate close2
ScanBody(text, st, close1, close2, id2) ==
    IF st.found \/ st.error # "none" \/ st.src > Len(text) THEN st
    ELSE IF utf8_whitespace(text[st.src])
    THEN ScanBody(text, [st EXCEPT !.src = @ + 1], close1, close2, id2)
    ELSE IF SeparatorAt(text, st.src, close1)
    THEN [st EXCEPT !.src = @ + Len(close1), !.found = TRUE]
    ELSE IF SeparatorAt(text, st.src, close2)
    THEN AlternateMatch(st, Len(close1), id2)
    ELSE
        LET obj == ObjectParse(text, st.src)
        IN  IF obj.type = "null" THEN [st EXCEPT !.error = "syntax"]
            ELSE IF st.loopvar /\ obj.type # "symbol"
            THEN [st EXCEPT !.error = "missing_variable"]
            ELSE IF st.loopvar
            THEN ScanBody(text,
                          [st EXCEPT !.loopvar = FALSE, !.name = obj.text,
                                     !.src = @ + obj.length],
                          close1, close2, id2)
            ELSE ScanBody(text,
                          [st EXCEPT !.body = Append(@, obj),
                                     !.src = @ + obj.length],
                          close1, close2, id2)

\* loop::object_parser(p, open, nullptr, close2, id2, close1, id1,
\*                     nullptr, loopvar)
object_parser(text, open, close2, id2, close1, id1, loopvar) ==
    LET opened == ScanOpen(text, 1, open)
    IN  IF opened = 0 THEN Skipped
        ELSE IF opened = -1 THEN Failed("unterminated")
        ELSE
            LET st == ScanBody(text,
                               [src |-> opened, found |-> FALSE,
                                error |-> "none", type |-> id1,
                                loopvar |-> loopvar, name |-> <<>>,
                                body |-> <<>>],
                               close1, close2, id2)
            IN  IF st.error # "none" THEN Failed(st.error)
                ELSE IF ~st.found THEN Failed("unterminated")
                ELSE ParserOut(OK, "none", st.src - 1, st.type, st.name,
                               st.body)

LoopTypes == {"StartNext", "StartStep", "ForNext", "ForStep"}

\* PARSE_BODY of the four counted loops
LoopParseBody(type, text) ==
    CASE type = "StartNext" ->
            object_parser(text, KwStart, KwNext, "StartNext",
                          KwStep, "StartStep", FALSE)
      [] type = "ForNext" ->
            object_parser(text, KwFor, KwNext, "ForNext",
                          KwStep, "ForStep", TRUE)
      [] OTHER -> Skipped

\* object::parse on a loop: the handlers are tried until one does not skip
LoopParse(text) ==
    LET results == [i \in 1..4 |->
                      LoopParseBody(<<"StartNext", "StartStep", "ForNext",
                                      "ForStep">>[i], text)]
    IN  IF \E i \in 1..4 : results[i].res # SKIP
        THEN results[CHOOSE i \in 1..4 :
                        /\ results[i].res # SKIP
                        /\ \A j \in 1..(i - 1) : results[j].res = SKIP]
        ELSE Skipped

\* Settings.command_fmt
CommandFormats == {"lower", "upper", "capitalized"}

\* r.put(format, text)
PutFormat(format, text) ==
    [i \in 1..Len(text) |->
        IF format = "upper" \/ (format = "capitalized" /\ i = 1)
        THEN Upper(text[i]) ELSE text[i]]

RECURSIVE RenderBlock(_, _)
\* first->render(r) for the block of a loop: its objects, one after another
RenderBlock(body, i) ==
    IF i > Len(body) THEN <<>>
    ELSE body[i].text \o (IF i < Len(body) THEN <<" ">> ELSE <<>>)
         \o RenderBlock(body, i + 1)

\* loop::object_renderer(r, open, nullptr, close, loopvar)
object_renderer(loop, format, open, close, loopvar) ==
    <<"\n">> \o PutFormat(format, open)
    \o (IF loopvar THEN <<" ">> \o loop.name ELSE <<>>)
    \o <<"\n", "\t">> \o RenderBlock(loop.body, 1)
    \o <<"\n">> \o PutFormat(format, close)

\* RENDER_BODY of the four counted loops
LoopRenderBody(loop, format) ==
    CASE loop.type = "StartNext" ->
            object_renderer(loop, format, KwStart, KwNext, FALSE)
      [] loop.type = "StartStep" ->
            object_renderer(loop, format, KwStart, KwStep, FALSE)
      [] loop.type = "ForNext" ->
            object_renderer(loop, format, KwFor, KwNext, TRUE)
      [] loop.type = "ForStep" ->
            object_renderer(loop, format, KwFor, KwStep, TRUE)

\* Words of the texts given to the parsers
ParserWords ==
    {KwStart, <<"S", "T", "A", "R", "T">>, KwFor, KwNext, <<"N", "e", "x", "t">>,
     KwStep, <<"s", "t", "e", "p", "s">>, <<"1">>, <<"x">>, <<"?">>}

\* Largest number of words in a text
MaxWords == 3

RECURSIVE JoinWords(_, _)
JoinWords(ws, i) ==
    IF i > Len(ws) THEN <<>>
    ELSE ws[i] \o (IF i < Len(ws) THEN <<" ">> ELSE <<>>) \o JoinWords(ws, i + 1)

\* The texts: words separated by spaces, after optional whitespace; a loop
\* does not open inside another one
ParserTexts ==
    LET opens  == {KwStart, <<"S", "T", "A", "R", "T">>, KwFor}
        lists  == UNION {[1..n -> ParserWords] : n \in 0..MaxWords}
        plain  == {ws \in lists : \A i \in 2..Len(ws) : ws[i] \notin opens}
        leads  == {<<>>, <<" ">>, <<"\n", " ">>}
        trails == {<<>>, <<" ">>}
    IN  {l \o JoinWords(ws, 1) \o t : l \in leads, ws \in plain, t \in trails}

\* The objects of a body, and the loops rendered
BodyObjects ==
    {[type |-> "integer", text |-> <<"1">>, length |-> 1],
     [type |-> "integer", text |-> <<"2", "1">>, length |-> 2],
     [type |-> "symbol", text |-> <<"x">>, length |-> 1]}

LoopObjects ==
    {[type |-> t, name |-> n, body |-> b] :
        t \in LoopTypes, n \in {<<>>, <<"i">>},
        b \in UNION {[1..k -> BodyObjects] : k \in 0..2}}

NoLoop == [type |-> "none", name |-> <<>>, body |-> <<>>]

ParserFrame == UNCHANGED <<loopVars, histVars, decVars, sysVars, objVars,
                           ptrs, disp, fs, sn>>

\* One of the parsers is given a text
LoopParseText ==
    /\ prs.op = "none"
    /\ \E text \in ParserTexts, type \in LoopTypes :
        prs' = [op |-> "parse", handler |-> type, format |-> "none",
                loop |-> NoLoop, text |-> text,
                out |-> LoopParseBody(type, text)]
    /\ ParserFrame

\* A loop is rendered, and the text is parsed
LoopRenderParse ==
    /\ prs.op = "none"
    /\ \E loop \in LoopObjects, format \in CommandFormats :
        /\ (loop.name # <<>>) <=> (loop.type \in {"ForNext", "ForStep"})
        /\ \E text \in {LoopRenderBody(loop, format)} :
            prs' = [op |-> "render", handler |-> "none", format |-> format,
                    loop |-> loop, text |-> text, out |-> LoopParse(text)]
    /\ ParserFrame

InitParser == InitLoopIdle /\ InitSysIdle /\ InitDecIdle

NextParser ==
    \/ LoopParseText
    \/ LoopRenderParse

SpecParser == InitParser /\ [][NextParser]_vars

-----------------------------------------------------------------------------
(* file.cc: the one open file of DMCP, and the files closed to make room   *)
(* for it.  File objects are numbered from 1; 0 is nullptr.                *)

\* Characters read from a file
MaxPos == 1

FileModes == {"READING", "WRITING", "APPEND"}

FilePaths == {"a", "b"}

FileFrame == UNCHANGED <<loopVars, histVars, decVars, sysVars, objVars,
                         ptrs, disp, prs, sn>>

\* file::close(false): the file is closed and is not current any more
CloseOnly(s, f) ==
    [s EXCEPT !.files[f].closed = IF s.files[f].valid THEN s.files[f].pos
                                  ELSE @,
              !.files[f].valid = FALSE,
              !.current = 0]

\* file::open(path, wrmode), fopen / f_open succeeding or not
FileOpenAs(s, f, path, wrmode, ok) ==
    LET previous == s.current
        s1 == IF previous # 0 THEN CloseOnly(s, previous) ELSE s
    IN  [s1 EXCEPT !.files[f].writing = (wrmode \in {"APPEND", "WRITING"}),
                   !.files[f].previous = previous,
                   !.files[f].name = path,
                   !.files[f].valid = ok,
                   !.files[f].pos = 0,
                   !.current = IF ok THEN f ELSE 0]

\* file::reopen()
FileReopen(s, f, ok) ==
    LET s1 == FileOpenAs(s, f, s.files[f].name,
                         IF s.files[f].writing THEN "APPEND" ELSE "READING",
                         ok)
    IN  IF s1.files[f].valid /\ ~s1.files[f].writing
        THEN [s1 EXCEPT !.files[f].pos = s1.files[f].closed]
        ELSE s1

\* file::close(true)
FileCloseAs(s, f, ok) ==
    LET s1 == CloseOnly(s, f)
        previous == s1.files[f].previous
    IN  IF previous # 0
        THEN [FileReopen(s1, previous, ok) EXCEPT !.files[f].previous = 0]
        ELSE s1

\* A file object is constructed on a path: file::file(path, wrmode)
FileOpen ==
    /\ Len(fs.nest) < MaxFiles
    /\ \E f \in Files, path \in FilePaths, wrmode \in FileModes,
          ok \in BOOLEAN :
        /\ \A i \in 1..Len(fs.nest) : fs.nest[i] # f
        /\ f = Len(fs.nest) + 1
        /\ fs' = [FileOpenAs(fs, f, path, wrmode, ok) EXCEPT
                    !.nest = Append(fs.nest, f),
                    !.failed = fs.failed \/ ~ok]
    /\ FileFrame

\* file::get() on the current file
FileGet ==
    /\ fs.current # 0
    /\ fs.files[fs.current].valid
    /\ ~fs.files[fs.current].writing
    /\ fs.files[fs.current].pos < MaxPos
    /\ fs' = [fs EXCEPT !.files[fs.current].pos = @ + 1]
    /\ FileFrame

\* The file object constructed last is destroyed: file::~file(), close()
FileClose ==
    /\ fs.nest # <<>>
    /\ \E ok \in BOOLEAN :
        LET f == fs.nest[Len(fs.nest)]
        IN  /\ (fs.files[f].previous = 0 => ok)
            /\ fs' = [FileCloseAs(fs, f, ok) EXCEPT
                        !.files[f] = NewFile,
                        !.nest = SubSeq(fs.nest, 1, Len(fs.nest) - 1),
                        !.failed = fs.failed \/ ~ok]
    /\ FileFrame

InitFile == InitLoopIdle /\ InitSysIdle /\ InitDecIdle

NextFile ==
    \/ FileOpen
    \/ FileGet
    \/ FileClose

SpecFile == InitFile /\ [][NextFile]_vars

-----------------------------------------------------------------------------
(* sysmenu.cc: state_name(), on paths that are sequences of characters.    *)
(* Offsets in the static buffer are counted from 0, as in the code.        *)

\* sizeof(buffer)
BufferSize == 16

\* Longest base name of a state file
MaxName == 17

\* Letters of the base names, in order
NameLetters ==
    <<"a", "b", "c", "d", "e", "f", "g", "h", "i", "j", "k", "l", "m", "n",
      "o", "p", "q", "r", "s", "t">>

Ext48S == <<".", "4", "8", "S">>

\* Directories and extensions of the stored paths
PathDirs ==
    {<<>>, <<"/">>, <<"d", "/">>, <<"d", "\\", "e", "/">>,
     <<"d", ".", "4", "8", "S", "/">>}

PathExts == {<<>>, Ext48S, <<".", "4", "8", "S", ".", "b">>, <<".", "t">>}

\* What get_reset_state_file() returns: a path (empty when none is stored)
StoredPaths ==
    {dir \o SubSeq(NameLetters, 1, n) \o ext :
        dir \in PathDirs, n \in 0..MaxName, ext \in PathExts}

\* strstr(name, sub) is not null
StrStr(name, sub) ==
    \E i \in 1..(Len(name) - Len(sub) + 1) :
        SubSeq(name, i, i + Len(sub) - 1) = sub

RECURSIVE NameScan(_, _, _, _)
\* for (cstring p = name; *p; p++): the start of the name and the last dot,
\* as positions in the path (0 for nullptr)
NameScan(path, p, name, dot) ==
    IF p > Len(path) THEN [name |-> name, last |-> dot]
    ELSE IF path[p] \in {"/", "\\"} THEN NameScan(path, p + 1, p + 1, dot)
    ELSE IF path[p] = "." THEN NameScan(path, p + 1, name, p)
    ELSE NameScan(path, p + 1, name, dot)

RECURSIVE NameCopy(_, _, _, _, _)
\* while (p < end && name < last && (*p++ = *name++)): the buffer, the
\* offset p after the loop and the offsets written
NameCopy(path, buffer, p, name, stop) ==
    IF p < BufferSize /\ name < stop
    THEN LET c == IF name <= Len(path) THEN path[name] ELSE "NUL"
             b == [buffer EXCEPT ![p + 1] = c]
         IN  IF c # "NUL"
             THEN LET more == NameCopy(path, b, p + 1, name + 1, stop)
                  IN  [more EXCEPT !.writes = @ \cup {p}]
             ELSE [buffer |-> b, p |-> p + 1, writes |-> {p}]
    ELSE [buffer |-> buffer, p |-> p, writes |-> {}]

\* The string at the start of the buffer; when no NUL is in the buffer it
\* runs into the byte after it, where the NUL was written
StringOf(buffer) ==
    IF \E i \in 1..Len(buffer) : buffer[i] = "NUL"
    THEN SubSeq(buffer, 1,
                (CHOOSE i \in 1..Len(buffer) :
                    /\ buffer[i] = "NUL"
                    /\ \A j \in 1..(i - 1) : buffer[j] # "NUL") - 1)
    ELSE buffer

\* state_name(): the buffer after the call, the offsets written (an offset
\* of BufferSize is the byte after the buffer) and the string returned
state_name(path, buffer) ==
    IF path # <<>> /\ StrStr(path, Ext48S)
    THEN LET scan   == NameScan(path, 1, 1, 0)
             stop   == IF scan.last = 0 THEN scan.name ELSE scan.last
             copied == NameCopy(path, buffer, 0, scan.name, stop)
             after  == IF copied.p < BufferSize
                       THEN [copied.buffer EXCEPT ![copied.p + 1] = "NUL"]
                       ELSE copied.buffer
         IN  [buffer |-> after, writes |-> copied.writes \cup {copied.p},
              ret |-> StringOf(after)]
    ELSE [buffer |-> buffer, writes |-> {},
          ret |-> <<"D", "B", "4", "8", "X">>]

\* The static buffer before the call: zeroes, or what an earlier call left
StaleBuffers ==
    {[i \in 1..BufferSize |-> "NUL"], [i \in 1..BufferSize |-> "z"]}

NameFrame == UNCHANGED <<loopVars, histVars, decVars, sysVars, objVars,
                         ptrs, disp, prs, fs>>

\* state_name() is called with a path stored
StateName ==
    /\ sn.op = "none"
    /\ \E path \in StoredPaths, buffer \in StaleBuffers :
        \E out \in {state_name(path, buffer)} :
            sn' = [op |-> "state_name", path |-> path, buffer |-> out.buffer,
                   writes |-> out.writes, ret |-> out.ret]
    /\ NameFrame

InitName == InitLoopIdle /\ InitSysIdle /\ InitDecIdle

NextName == StateName

SpecName == InitName /\ [][NextName]_vars

-----------------------------------------------------------------------------
(* The state menu of sysmenu.cc: state_save_callback, state_load_callback  *)

\* Settings a user may have chosen
UserSettings ==
    [decimal_mark : {".", ","}, fancy_exponent : BOOLEAN,
     standard_exp : {1, 9}]

\* Settings = settings(); Settings.fancy_exponent = false;
\* Settings.standard_exp = 1;
SaveSettings ==
    [DefaultSettings EXCEPT !.fancy_exponent = FALSE, !.standard_exp = 1]

\* Home directories and stacks before the callback
StateGlobals ==
    {<<>>, <<<<"A", IntObj(1)>>>>, <<<<"A", DecObj(3)>>, <<"B", TextObj>>>>}
StateStacks == {<<>>, <<IntObj(2)>>, <<TextObj, DecObj(1)>>}

StatePaths == {"/STATE/ONE.48S", "/STATE/TWO.48S"}

\* Commands of a state file: `object 'Name' STO`, an object alone, a setting,
\* a command that fails when executed, and text that does not parse
StateCommands ==
    {[op |-> "sto", name |-> "A", obj |-> IntObj(3)],
     [op |-> "sto", name |-> "C", obj |-> TextObj],
     [op |-> "push", name |-> "", obj |-> DecObj(5)],
     [op |-> "exp", name |-> "", obj |-> IntObj(1)],
     [op |-> "fail", name |-> "", obj |-> NullObj],
     [op |-> "bad", name |-> "", obj |-> NullObj]}

\* The state files that can be opened
StateFiles ==
    {<<>>} \cup {<<c>> : c \in StateCommands}
    \cup {<<[op |-> "sto", name |-> "A", obj |-> IntObj(3)], c>> :
            c \in StateCommands}

InitState ==
    /\ kind = "none" /\ pc = "done" /\ r = "OK"
    /\ stack \in StateStacks
    /\ err = "none" /\ interrupted = FALSE
    /\ cnt = 0 /\ last = 0 /\ incr = 1
    /\ astep = NullObj /\ skip = FALSE /\ acnt = 0 /\ alast = 0
    /\ local0 = NullObj
    /\ stack0 = <<>> /\ bodyRuns = 0 /\ condRuns = 0 /\ iter = <<>>
    /\ truth = "none" /\ sawInt = FALSE
    /\ refCnt = 0 /\ refDiverged = FALSE /\ switched = FALSE
    /\ InitDecIdle
    /\ Settings \in UserSettings
    /\ saved = DefaultSettings
    /\ sop = "none" /\ spc = "idle" /\ sret = "none" /\ why = "none"
    /\ globals \in StateGlobals
    /\ stateFile = "none" /\ fileOut = <<>>
    /\ sidx = 0 /\ editor = <<>>
    /\ InitObjIdle
    /\ InitExtIdle
    /\ sys0 = [Settings |-> Settings, stack |-> stack, globals |-> globals]

\* The state-menu callbacks leave the loop machine and the decimals alone
SysFrame ==
    UNCHANGED <<kind, pc, r, err, interrupted, fastVars, algVars, local0,
                histVars, decVars, sys0, objVars,
                extVars>>

\* state_save_callback up to the installation of the settings used to render
SaveOpen ==
    /\ spc = "idle"
    /\ sop' = "save"
    /\ \E fpath \in StatePaths, valid \in BOOLEAN :
          /\ stateFile' = fpath
          /\ IF ~valid
             THEN /\ spc' = "done" /\ sret' = "1" /\ why' = "open"
                  /\ UNCHANGED <<Settings, saved>>
             ELSE /\ saved' = Settings
                  /\ Settings' = SaveSettings
                  /\ spc' = "save_variables"
                  /\ UNCHANGED <<sret, why>>
    /\ sidx' = 0
    /\ UNCHANGED <<stack, globals, fileOut, editor>>
    /\ SysFrame

\* state_save_variable, called for one variable of the home directory
SaveVariable ==
    /\ spc = "save_variables"
    /\ sidx < Len(globals)
    /\ fileOut' = Append(fileOut,
                         [what |-> "variable", name |-> globals[sidx + 1][1],
                          obj |-> globals[sidx + 1][2], under |-> Settings])
    /\ sidx' = sidx + 1
    /\ UNCHANGED <<Settings, saved, sop, spc, sret, why, globals, stateFile,
                   stack, editor>>
    /\ SysFrame

\* uint depth = rt.depth();
SaveStackDepth ==
    /\ spc = "save_variables"
    /\ sidx = Len(globals)
    /\ spc' = "save_stack"
    /\ sidx' = Len(stack)
    /\ UNCHANGED <<Settings, saved, sop, sret, why, globals, stateFile,
                   fileOut, stack, editor>>
    /\ SysFrame

\* while (depth > 0) { depth--; rt.stack(depth)->render(render); }
SaveStackObject ==
    /\ spc = "save_stack"
    /\ sidx > 0
    /\ sidx' = sidx - 1
    /\ fileOut' = Append(fileOut,
                         [what |-> "stack", name |-> "",
                          obj |-> StackAt(stack, sidx - 1),
                          under |-> Settings])
    /\ UNCHANGED <<Settings, saved, sop, spc, sret, why, globals, stateFile,
                   stack, editor>>
    /\ SysFrame

\* The settings are restored without being put back
SaveFinishNoRestore ==
    /\ spc = "save_stack"
    /\ sidx = 0
    /\ fileOut' = Append(fileOut,
                         [what |-> "settings", name |-> "", obj |-> NullObj,
                          under |-> Settings])
    /\ spc' = "done" /\ sret' = "MRET_EXIT" /\ why' = "saved"
    /\ UNCHANGED <<Settings, saved, sop, globals, stateFile, sidx, stack,
                   editor>>
    /\ SysFrame

\* saved.save(render); Settings = saved; return MRET_EXIT;
SaveFinish ==
    /\ spc = "save_stack"
    /\ sidx = 0
    /\ fileOut' = Append(fileOut,
                         [what |-> "settings", name |-> "", obj |-> NullObj,
                          under |-> Settings])
    /\ Settings' = saved
    /\ spc' = "done" /\ sret' = "MRET_EXIT" /\ why' = "saved"
    /\ UNCHANGED <<saved, sop, globals, stateFile, sidx, stack, editor>>
    /\ SysFrame

\* state_load_callback up to set_reset_state_file: the question asked before
\* a load that is no merge, and rt.reset(), which clears the state
LoadAsk ==
    /\ spc = "idle"
    /\ \E merge \in BOOLEAN, confirmed \in BOOLEAN, path \in StatePaths :
          /\ sop' = IF merge THEN "merge" ELSE "load"
          /\ IF merge
             THEN /\ spc' = "load_open"
                  /\ UNCHANGED <<sret, why, stack, globals, editor,
                                 stateFile>>
             ELSE IF ~confirmed
             THEN /\ spc' = "done" /\ sret' = "0" /\ why' = "declined"
                  /\ UNCHANGED <<stack, globals, editor, stateFile>>
             ELSE /\ stack' = <<>> /\ globals' = <<>> /\ editor' = <<>>
                  /\ stateFile' = path
                  /\ spc' = "load_open"
                  /\ UNCHANGED <<sret, why>>
    /\ UNCHANGED <<Settings, saved, fileOut, sidx>>
    /\ SysFrame

\* state_load_callback: prog.open(path), and the file read into the editor
LoadOpen ==
    /\ spc = "load_open"
    /\ \E valid \in BOOLEAN, file \in StateFiles :
          IF ~valid
          THEN /\ spc' = "done" /\ sret' = "1" /\ why' = "open"
               /\ UNCHANGED editor
          ELSE /\ editor' = file
               /\ spc' = "load_run"
               /\ UNCHANGED <<sret, why>>
    /\ UNCHANGED <<Settings, saved, sop, globals, stateFile, fileOut, sidx,
                   stack>>
    /\ SysFrame

\* `object 'Name' STO` in a directory d
Store(d, name, obj) ==
    IF \E i \in 1..Len(d) : d[i][1] = name
    THEN [i \in 1..Len(d) |-> IF d[i][1] = name THEN <<name, obj>> ELSE d[i]]
    ELSE Append(d, <<name, obj>>)

\* cmds->execute(): the commands of the file from the i-th on; st holds the
\* stack, the directory, the settings and the result
RECURSIVE Execute(_, _, _)
Execute(cmds, i, st) ==
    IF i > Len(cmds) THEN st
    ELSE LET c == cmds[i] IN
         CASE c.op = "sto" ->
                Execute(cmds, i + 1,
                        [st EXCEPT !.globals = Store(@, c.name, c.obj)])
           [] c.op = "push" ->
                Execute(cmds, i + 1, [st EXCEPT !.stack = Push(@, c.obj)])
           [] c.op = "exp" ->
                Execute(cmds, i + 1,
                        [st EXCEPT !.Settings.standard_exp = c.obj.v])
           [] OTHER -> [st EXCEPT !.exec = "ERROR"]

\* state_load_callback: the text read is parsed and executed
LoadRun ==
    /\ spc = "load_run"
    /\ \E memory \in BOOLEAN :
          LET parsed == \A i \in 1..Len(editor) : editor[i].op # "bad"
              st     == Execute(editor, 1,
                                [stack |-> stack, globals |-> globals,
                                 Settings |-> Settings, exec |-> "OK"])
          IN  IF editor = <<>>
              THEN /\ sret' = "MRET_EXIT" /\ why' = "loaded"
                   /\ UNCHANGED <<stack, globals, Settings, editor>>
              ELSE IF ~memory
              THEN /\ sret' = "1" /\ why' = "memory"
                   /\ editor' = <<>>
                   /\ UNCHANGED <<stack, globals, Settings>>
              ELSE IF ~parsed
              THEN /\ sret' = "1" /\ why' = "parse"
                   /\ UNCHANGED <<stack, globals, Settings, editor>>
              ELSE /\ editor' = <<>>
                   /\ stack' = st.stack
                   /\ globals' = st.globals
                   /\ Settings' = st.Settings
                   /\ IF st.exec # "OK"
                      THEN sret' = "1" /\ why' = "exec"
                      ELSE sret' = "MRET_EXIT" /\ why' = "loaded"
    /\ spc' = "done"
    /\ UNCHANGED <<saved, sop, stateFile, fileOut, sidx>>
    /\ SysFrame

NextState ==
    \/ SaveOpen
    \/ SaveVariable
    \/ SaveStackDepth
    \/ SaveStackObject
    \/ SaveFinish
    \/ LoadAsk
    \/ LoadOpen
    \/ LoadRun

SpecState == InitState /\ [][NextState]_vars

-----------------------------------------------------------------------------
(* Properties of the loop machine *)

IsPrefix(s, t) == Len(s) <= Len(t) /\ s = SubSeq(t, 1, Len(s))

\* The operands of a counted loop, as found on the stack at evaluation
Start0  == StackAt(stack0, 1)
Finish0 == StackAt(stack0, 0)

\* The loop returned OK and was not stopped by the interrupted flag
CompletedOK == pc = "done" /\ r = "OK" /\ ~sawInt

\* C1: a START..NEXT loop with integer start and finish pops both and
\* evaluates its body exactly once per integer of [start, finish]:
\* finish - start + 1 times when start <= finish, zero times otherwise.
C1_StartNextCount ==
    (kind = "StartNext" /\ Len(stack0) >= 2
        /\ Start0.ty = "integer" /\ Finish0.ty = "integer")
    => LET n == IF Start0.v <= Finish0.v
                THEN Finish0.v - Start0.v + 1 ELSE 0
       IN  /\ bodyRuns <= n
           /\ CompletedOK => (bodyRuns = n /\ stack = Drop(stack0, 2))

\* C2 (state part): within an iteration of DO body UNTIL cond END the body
\* comes first, then the condition, then the pop; the loop goes round again
\* only after a false value, is over as soon as a true value was popped, and
\* a loop that was neither interrupted nor failed ends on a true value after
\* at least one body.
C2_DoUntilInv ==
    kind = "DoUntil" =>
      /\ IsPrefix(iter, <<"body", "cond", "pop">>)
      /\ pc = "cond" => iter = <<"body">>
      /\ pc = "pop" => iter = <<"body", "cond">>
      /\ truth = "true" => pc = "done"
      /\ (pc \in {"head", "body"} /\ bodyRuns > 0 /\ iter = <<>>)
            => truth = "false"
      /\ CompletedOK => /\ truth = "true"
                        /\ iter = <<"body", "cond", "pop">>
                        /\ bodyRuns >= 1
                        /\ bodyRuns = condRuns
      /\ (pc = "done" /\ ~sawInt) => bodyRuns >= 1

\* C2 (step part): a successful condition() pops exactly one object and
\* leaves the loop exactly when the value is true, and the body is evaluated
\* only from the head of an iteration.
C2_DoUntilStep ==
    kind = "DoUntil" =>
      /\ (pc = "pop" /\ pc' # "pop" /\ r' = "OK") => stack' = Drop(stack, 1)
      /\ (pc = "pop" /\ pc' # "pop" /\ r' = "OK")
            => (pc' = "done" <=> truth' = "true")
      /\ bodyRuns' # bodyRuns => (iter = <<>> /\ truth # "true")

C3_WhileInv ==
    kind = "WhileRepeat" =>
      /\ IsPrefix(iter, <<"cond", "pop", "body">>)
      /\ pc = "pop" => iter = <<"cond">>
      /\ pc = "body" => (iter = <<"cond", "pop">> /\ truth = "true")
      /\ truth = "false" => (pc = "done" /\ iter = <<"cond", "pop">>)
      /\ bodyRuns <= condRuns
      /\ CompletedOK => /\ truth = "false"
                        /\ bodyRuns = condRuns - 1
      /\ (truth = "false" /\ condRuns = 1) => bodyRuns = 0

\* C3 (step part): a successful condition() pops exactly one object and
\* leaves the loop exactly when the value is false, and every body
\* evaluation directly follows a pop that gave true.
C3_WhileStep ==
    kind = "WhileRepeat" =>
      /\ (pc = "pop" /\ pc' # "pop" /\ r' = "OK") => stack' = Drop(stack, 1)
      /\ (pc = "pop" /\ pc' # "pop" /\ r' = "OK")
            => (pc' = "done" <=> truth' = "false")
      /\ bodyRuns' # bodyRuns => (pc = "body" /\ truth = "true"
                                    /\ iter = <<"cond", "pop">>)

\* C3: in WHILE cond REPEAT body END the condition is evaluated and one truth
\* value popped before every body execution; the body runs only after a true
\* condition, and the loop exits without running the body the first time the
\* condition is false (no body at all if it is false initially).
C3_WhileCondFirst == []C3_WhileInv /\ [][C3_WhileStep]_vars

\* C3 witness: a WHILE loop that ran its body twice and ended on false
C3_Witness ==
    kind = "WhileRepeat" /\ CompletedOK /\ truth = "false" /\ bodyRuns = 2

\* C3 witness for the initial case: the first condition is false, no body ran
C3_WitnessZero ==
    kind = "WhileRepeat" /\ CompletedOK /\ condRuns = 1 /\ bodyRuns = 0

\* C4: once the head of a DO, WHILE, START or FOR loop has found the
\* interrupted flag set, no further iteration starts and the evaluation
\* returns an error status (not OK).
C4_InterruptIsError ==
    sawInt => (pc = "done" /\ r # "OK")

\* C5: a START loop whose start or finish is not a number reports a type
\* error, never evaluates its body, and leaves the value stack as it was.
C5_TypeErrorKeepsStack ==
    (kind \in {"StartNext", "StartStep"} /\ pc = "done" /\ Len(stack0) >= 2
        /\ (~is_real(Start0) \/ ~is_real(Finish0)))
    => (err = "type" /\ r = "ERROR" /\ bodyRuns = 0 /\ stack = stack0)

\* C6: when the fast path of a STEP loop pops a real step that is no
\* non-negative integer object and switches to the algebraic path, the
\* counter at the switch and the number of body evaluations are those of the
\* same loop run on the algebraic path from the start.
C6_SwitchSeamless ==
    switched => /\ ~refDiverged
                /\ (pc = "ahead" /\ skip) => acnt = refCnt

-----------------------------------------------------------------------------
(* Properties of the decimal machine *)

RECURSIVE Pow10(_)
Pow10(n) == IF n <= 0 THEN 1 ELSE 10 * Pow10(n - 1)

Abs(n) == IF n < 0 THEN -n ELSE n

\* The kigits k read as one integer in base 1000
RECURSIVE Mantissa(_)
Mantissa(k) ==
    IF k = <<>> THEN 0
    ELSE 1000 * Mantissa(SubSeq(k, 1, Len(k) - 1)) + k[Len(k)]

\* m * 10^e with the factors of ten moved out of m; <<0, 0>> for zero.
\* Two such pairs are equal exactly when the numbers are
RECURSIVE NormPair(_, _)
NormPair(m, e) ==
    IF m = 0 THEN <<0, 0>>
    ELSE IF m % 10 = 0 THEN NormPair(m \div 10, e + 1)
    ELSE <<m, e>>

\* Number of decimal digits of m
RECURSIVE NumDigits(_)
NumDigits(m) == IF m < 10 THEN 1 ELSE 1 + NumDigits(m \div 10)

\* Number of digits from the first to the last nonzero digit of m
SigDigits(m) == IF m = 0 THEN 0 ELSE NumDigits(NormPair(m, 0)[1])

\* The magnitude of d as a pair
Magnitude(d) == NormPair(Mantissa(d.k), d.exp - 3 * Len(d.k))

\* The magnitude of d in millionths, rounded down (exact for the operands)
RECURSIVE UnitsFrom(_, _)
UnitsFrom(d, i) ==
    IF i > Len(d.k) THEN 0
    ELSE LET p == d.exp + 6 - 3 * i IN
         (IF p >= 0 THEN d.k[i] * Pow10(p)
          ELSE IF p >= -3 THEN d.k[i] \div Pow10(-p)
          ELSE 0)
         + UnitsFrom(d, i + 1)

Units(d)       == UnitsFrom(d, 1)
SignedUnits(d) == IF d.neg THEN -Units(d) ELSE Units(d)

\* Number of kigits kept under the precision of the run
KeptKigits == (dprec + 2) \div 3

\* d is zero, or its first kigit has a leading digit and its last is not 0
Normalized(d) ==
    \/ d.k = <<>>
    \/ d.k[1] >= 100 /\ d.k[Len(d.k)] # 0

\* C7: for normalized x and y within the active precision, (x + y) - y as
\* computed by decimal addition then decimal subtraction is x up to one unit
\* in the last kept digit.  Stated on values in millionths rounded down, so
\* with one more millionth allowed, and a unit of at least one millionth.
C7_PlusMinusGivesBack ==
    (dop = "plusminus"
        /\ Len(dx.k) <= KeptKigits /\ Len(dy.k) <= KeptKigits)
    => LET e    == Max(dx.exp, operator_plus(dx, dy, dprec).exp)
           unit == Pow10(e + 6 - dprec)
       IN  Abs(SignedUnits(dres) - SignedUnits(dx)) <= unit + 1

\* C8: the decimal + operator applied to a nonzero x and the decimal of
\* equal magnitude and opposite sign gives a zero decimal, with no kigit.
C8_PlusOppositeIsZero ==
    (dop = "plus" /\ dx.k # <<>> /\ dy = decimal_neg(dx))
    => Len(dres.k) = 0

\* The exact difference |x| - |y| of the operands, in millionths
ExactDiff == Units(dx) - Units(dy)

\* C9: decimal::sub on normalized x and y of the same sign, themselves within
\* the precision, gives the exact difference whenever it fits in the kept
\* kigits: the sign is flipped exactly when |y| > |x|, every kigit is in
\* 0..999, and the result is normalized, its exponent lowered by the digits
\* that cancelled.
C9_SubExact ==
    (dop = "sub" /\ dx.neg = dy.neg
        /\ Len(dx.k) <= KeptKigits /\ Len(dy.k) <= KeptKigits
        /\ SigDigits(Abs(ExactDiff)) <= 3 * KeptKigits)
    => /\ Magnitude(dres) = NormPair(Abs(ExactDiff), -6)
       /\ (dres.neg # dx.neg) <=> (Units(dy) > Units(dx))
       /\ \A i \in 1..Len(dres.k) : dres.k[i] \in 0..999
       /\ Normalized(dres)

\* The operands of a product as integers free of factors of ten
FactorX == NormPair(Mantissa(dx.k), dx.exp - 3 * Len(dx.k))
FactorY == NormPair(Mantissa(dy.k), dy.exp - 3 * Len(dy.k))

\* C10: decimal::mul on normalized x and y gives the exact product whenever
\* it fits in the kept kigits (1.2 * 3.4 = 4.08), normalized, negative
\* exactly when the signs of the operands differ.  Stated for the products
\* of at most nine digits.
C10_MulExact ==
    (dop = "mul" /\ dx.k # <<>> /\ dy.k # <<>>
        /\ NumDigits(FactorX[1]) + NumDigits(FactorY[1]) <= 9
        /\ SigDigits(FactorX[1] * FactorY[1]) <= 3 * KeptKigits)
    => /\ Magnitude(dres)
            = NormPair(FactorX[1] * FactorY[1], FactorX[2] + FactorY[2])
       /\ dres.neg = (dx.neg # dy.neg)
       /\ Normalized(dres)

\* d has no kigit, or its first kigit is in 100..999, its last one is not 0
\* and none is above 999
InRange(d) ==
    \/ d.k = <<>>
    \/ /\ d.k[1] \in 100..999
       /\ d.k[Len(d.k)] # 0
       /\ \A i \in 1..Len(d.k) : d.k[i] <= 999

\* C11: every decimal produced by parsing a number or by decimal add, sub or
\* mul on normalized operands is normalized: it has no kigit, or its leading
\* kigit is in 100..999, its trailing kigit is not 0 and no kigit is above
\* 999.
C11_ResultsNormalized ==
    dop \in {"add", "sub", "mul", "parse"} => InRange(dres)

Sign(n) == IF n < 0 THEN -1 ELSE IF n > 0 THEN 1 ELSE 0

\* C12: for normalized x and y, zero included, decimal::compare(x, y) is
\* negative, zero or positive exactly when x < y, x = y or x > y.
C12_CompareIsOrder ==
    dop = "compare"
    => Sign(dint) = Sign(SignedUnits(dx) - SignedUnits(dy))

\* C19: every result of decimal add, sub or mul has at most
\* ceil(precision / 3) kigits, whatever the kigit counts of the operands,
\* and no trailing zero kigit.
C19_ResultWithinPrecision ==
    dop \in {"add", "sub", "mul"}
    => /\ Len(dres.k) <= KeptKigits
       /\ dres.k = <<>> \/ dres.k[Len(dres.k)] # 0

\* C15: rendering a normalized decimal for editing or for a saved file and
\* parsing the text gives back the decimal: same sign, same exponent, same
\* kigits.
C15_RenderParseIdentity ==
    dop = "reparse" /\ dx.k # <<>> => dres = dx

\* The digits of the integer part of |x|, as printed
FloorText(x) ==
    LET ds == KigitDigits(x.k) IN
    IF x.exp <= 0 \/ ds = <<>> THEN <<"0">>
    ELSE [i \in 1..x.exp |-> IF i <= Len(ds) THEN DigitChar(ds[i]) ELSE "0"]

\* a <= b for two numbers printed without leading zeroes
RECURSIVE TextLeqFrom(_, _, _)
TextLeqFrom(a, b, i) ==
    IF i > Len(a) THEN TRUE
    ELSE IF a[i] # b[i] THEN DigitVal(a[i]) < DigitVal(b[i])
    ELSE TextLeqFrom(a, b, i + 1)
TextLeq(a, b) ==
    Len(a) < Len(b) \/ (Len(a) = Len(b) /\ TextLeqFrom(a, b, 1))

\* The largest large, 2^63 - 1
LargeMaxText == WordText([WordMax EXCEPT ![WordBytes] = 127])

\* C13: as_unsigned gives the integer part of |x| when it fits the machine
\* word and the largest word otherwise; as_integer gives that magnitude with
\* the sign of x.
C13_AsUnsignedFloor ==
    /\ dop = "as_magnitude" \/ (dop = "as_unsigned" /\ ~dx.neg)
         => dtext = IF TextLeq(FloorText(dx), WordText(WordMax))
                    THEN FloorText(dx) ELSE WordText(WordMax)
    /\ dop = "as_integer" /\ TextLeq(FloorText(dx), LargeMaxText)
         => dtext = IF dx.neg /\ FloorText(dx) # <<"0">>
                    THEN <<"-">> \o FloorText(dx) ELSE FloorText(dx)

\* The number printed as the digits t
RECURSIVE TextNat(_)
TextNat(t) ==
    IF t = <<>> THEN 0
    ELSE 10 * TextNat(SubSeq(t, 1, Len(t) - 1)) + DigitVal(t[Len(t)])

\* The text t without its sign
Unsigned(t) == IF t # <<>> /\ t[1] = "-" THEN Tail(t) ELSE t

\* to_fraction finds no fractional part in |x|: it divides nothing and gives
\* the integer as_unsigned(round_to_zero(|x|))
NoFractionFound ==
    LET num == IF is_negative(dx) THEN decimal_neg(dx) ELSE dx
    IN  is_zero(decimal_sub(num, round_to_zero(num, 0), dprec))

\* C14: to_fraction gives p/q with |p/q - x| <= 10^(-fraction digits).
\* Stated in millionths for the x of at most two kigits, within the
\* precision, between 0 and 100, in which to_fraction finds no fractional
\* part, where the result is an integer p.
C14_FractionClose ==
    (dop = "to_fraction" /\ Len(dx.k) <= 2 /\ Len(dx.k) <= KeptKigits
        /\ dx.exp \in 0..2 /\ NoFractionFound)
    => Abs(TextNat(Unsigned(dtext)) * 1000000 - Units(dx)) <= Pow10(6 - dint)


\* The payload a decimal of exponent e and kigits k has by the layout: the
\* signed exponent, the kigit count, the packed kigits
LayoutPrefix(e, k) == Leb128Signed(e) \o Leb128(Len(k))

RECURSIVE KigitsRead(_, _, _, _)
KigitsRead(h, p, i, n) ==
    IF i >= n \/ p + 2 + (i * 10) \div 8 > Len(h) THEN <<>>
    ELSE <<KigitRead(h, p, i)>> \o KigitsRead(h, p, i + 1, n)

HasLayout(h, e, k) ==
    LET pre == LayoutPrefix(e, k)
    IN  /\ Len(h) >= Len(pre) + KigitBytes(Len(k))
        /\ SubSeq(h, 1, Len(pre)) = pre
        /\ KigitsRead(h, Len(pre), 0, Len(k)) = k

\* C18: whichever constructor built the object, its bytes are the exponent,
\* the kigit count and the packed kigits (after the tag), and the size
\* computed from these bytes by SIZE is the size required_memory reserved
C18_SizeIsReserved ==
    /\ dop \in {"make_bytes", "make_kigits"}
       => HasLayout(heap, dx.exp, dx.k) /\ SIZE(heap) = reserved
    /\ dop = "make_int"
       => HasLayout(heap, dres.exp, dres.k) /\ SIZE(heap) = reserved

\* a thousand times the value of an integral decimal of at most 6 digits
RECURSIVE MilliValue(_, _)
MilliValue(d, i) ==
    IF i > Len(d.k) THEN 0
    ELSE d.k[i] * Pow10(d.exp + 3 - 3 * i) + MilliValue(d, i + 1)

\* C20: a decimal built from the unsigned machine integer n is built without
\* arithmetic fault, is normalized and has the value n; 0 has no kigit and 1
\* is the kigit 100 with exponent 1
C20_FromIntegerExact ==
    dop \in {"make_int", "int_fault"}
    => /\ dop = "make_int"
       /\ Normalized(dres)
       /\ MilliValue(dres, 1) = 1000 * dint
       /\ dint = 0 => dres.k = <<>>
       /\ dint = 1 => dres = Dec(FALSE, 1, <<100>>)


\* C29: round_to_zero() of a normalized x is the normalized decimal equal to
\* the integer part of x, truncated toward zero (no kigit when it is zero)
C29_RoundToZeroTruncates ==
    (dop = "round_to_zero" /\ Len(dx.k) <= 2 /\ dx.exp \in -1..2)
    => /\ Normalized(dres)
       /\ Units(dres) = (Units(dx) \div 1000000) * 1000000
       /\ Units(dres) # 0 => dres.neg = dx.neg


\* bit n of the byte stream h, the most significant bit of a byte first
BitAt(h, n) == (h[n \div 8 + 1] \div Pow2(7 - (n % 8))) % 2

\* the 10 bits of h from bit n on, read as a number
RECURSIVE BitsFrom(_, _, _)
BitsFrom(h, n, count) ==
    IF count = 0 THEN 0
    ELSE BitAt(h, n) * Pow2(count - 1) + BitsFrom(h, n + 1, count - 1)

\* the indexes of the kigit array written to
KigitIndexes == {j \in 0..MaxKigits : KigitBytes(j + 1) <= reserved}

\* C23: a value written at an index of a kigit array is read back at this
\* index, the other kigits keep their value, no byte beyond the bytes of the
\* array is written or read, and the kigit at index i is the bits 10 i to
\* 10 i + 9 of the bytes, most significant bit first
C23_KigitWriteRead ==
    dop = "kigit_write"
    => /\ KigitRead(heap, 0, kidx) = kval
       /\ BitsFrom(heap, 10 * kidx, 10) = kval
       /\ \A j \in KigitIndexes \ {kidx} :
             /\ KigitRead(heap, 0, j) = KigitRead(heap0, 0, j)
             /\ BitsFrom(heap, 10 * j, 10) = BitsFrom(heap0, 10 * j, 10)
       /\ \A b \in 1..Len(heap) : b > reserved => heap[b] = heap0[b]
       /\ Len(heap) = Len(heap0)
       /\ (kidx * 10) \div 8 + 2 <= reserved

C23_Witness ==
    /\ dop = "kigit_write" /\ kidx = 3 /\ kval = 682
    /\ reserved = KigitBytes(MaxKigits)
    /\ heap0[1] = 255 /\ heap # heap0


\* the number after the E of a shown text, from position i on
RECURSIVE ShownExponent(_, _, _)
ShownExponent(t, i, acc) ==
    IF i > Len(t) THEN acc
    ELSE IF t[i] = "-" THEN -ShownExponent(t, i + 1, acc)
    ELSE ShownExponent(t, i + 1, 10 * acc + DigitVal(t[i]))

\* the magnitude a shown text denotes, as a pair: its digits read as one
\* number mant, frac of them after the decimal mark, then the exponent
RECURSIVE ShownValue(_, _, _, _, _)
ShownValue(t, i, mant, frac, after) ==
    IF i > Len(t) THEN NormPair(mant, -frac)
    ELSE IF t[i] = "E" THEN NormPair(mant, ShownExponent(t, i + 1, 0) - frac)
    ELSE IF IsDigit(t[i])
    THEN ShownValue(t, i + 1, 10 * mant + DigitVal(t[i]),
                    IF after THEN frac + 1 ELSE frac, after)
    ELSE ShownValue(t, i + 1, mant, frac, after \/ t[i] = ".")

Overflowed == dop \in {"Sig", "Fix", "Sci"} /\ dint >= 2

\* C24: rendering takes at most two passes, and when the rounding carried
\* past the leading digit (a second pass was made) the text shown is the
\* rounded value, 1 followed by zeroes: 10^exp for x = 0.99.. * 10^exp
C24_OverflowRendersRounded ==
    /\ dop \in {"Sig", "Fix", "Sci"} => dint <= 2
    /\ Overflowed
       => /\ ShownValue(dtext, 1, 0, 0, FALSE) = <<1, dx.exp>>
          /\ (dtext[1] = "-") = dx.neg


\* C21: real_promotion(x) of an exact real value x (integer, bignum,
\* fraction or big fraction of either sign) succeeds and leaves in x a
\* decimal of the type the precision selects, with the value x had
C21_ExactRealsPromote ==
    (dop = "real_promotion" /\ dx.ty \in ExactPositive \cup ExactNegative)
    => /\ dtext = PromotionType(dprec)
       /\ dres.ty = PromotionType(dprec)
       /\ dres.neg = dx.neg
       /\ dres.mag = dx.mag

-----------------------------------------------------------------------------
(* Properties of loop::counted's pointers *)

\* C22: in loop::counted no raw object pointer taken before a call that may
\* allocate is read after that call, on the fast path, at the transition
\* and on the algebraic path.
C22_NoRawReadAfterAllocation == ptrs.staleReads = {}

-----------------------------------------------------------------------------
(* Properties of the dispatch *)

\* C25: a tag that is not below NUM_IDS is invalid for type(), for the
\* static run and for the dynamic run alike: each reports an object error,
\* run returns ERROR, and the handler table is never indexed with such a tag.
C25_InvalidTagRejected ==
    /\ disp.index < NUM_IDS
    /\ (disp.fn # "none" /\ disp.tag >= NUM_IDS)
       => /\ disp.reported
          /\ disp.index = -1
          /\ disp.fn \in {"run(id)", "run"} => disp.ret = ERROR

-----------------------------------------------------------------------------
(* Properties of the loop parser *)

RECURSIVE FirstWordAt(_, _)
\* The position of the first character of text that is not whitespace,
\* 0 when there is none
FirstWordAt(text, i) ==
    IF i > Len(text) THEN 0
    ELSE IF text[i] \in {" ", "\n", "\t"} THEN FirstWordAt(text, i + 1)
    ELSE i

\* The word at position i of text is kw, in any case
WordIs(text, i, kw) ==
    /\ i > 0
    /\ i + Len(kw) - 1 <= Len(text)
    /\ \A j \in 1..Len(kw) : text[i + j - 1] \in {kw[j], Upper(kw[j])}
    /\ (i + Len(kw) <= Len(text) => text[i + Len(kw)] \in {" ", "\n", "\t"})

\* The opening keyword of the handler that ran
OpenOf(type) == IF type \in {"StartNext", "StartStep"} THEN KwStart ELSE KwFor

\* The text given to the parser begins with its opening keyword
BeginsWithOpen ==
    WordIs(prs.text, FirstWordAt(prs.text, 1), OpenOf(prs.handler))

\* C26: loop::object_parser returns SKIP, with no error recorded, whenever
\* the text does not begin, after optional whitespace, with the opening
\* keyword, also when the text is empty or only whitespace; it returns
\* ERROR only after the opening keyword has been matched.
C26_SkipUnlessOpened ==
    (prs.op = "parse" /\ prs.handler \in {"StartNext", "ForNext"})
    => /\ ~BeginsWithOpen => (prs.out.res = SKIP /\ prs.out.error = "none")
       /\ prs.out.res = ERROR => BeginsWithOpen

\* The closing keyword of each type of loop
CloseOf(type) == IF type \in {"StartNext", "ForNext"} THEN KwNext ELSE KwStep

\* C27: a counted loop closed by NEXT parses to StartNext / ForNext and one
\* closed by STEP to StartStep / ForStep; the parser consumes exactly the
\* characters of the closing keyword it matched; each variant renders with
\* its own closing keyword, so that parsing the rendered text of a loop
\* gives a loop of the same type.
C27_ClosingKeywordSelectsType ==
    /\ (prs.op = "parse" /\ prs.out.res = OK)
       => /\ prs.out.type \in
                (IF prs.handler = "StartNext"
                 THEN {"StartNext", "StartStep"} ELSE {"ForNext", "ForStep"})
          /\ prs.out.end >= Len(CloseOf(prs.out.type))
          /\ WordIs(prs.text,
                    prs.out.end - Len(CloseOf(prs.out.type)) + 1,
                    CloseOf(prs.out.type))
    /\ prs.op = "render"
       => /\ prs.out.res = OK
          /\ prs.out.type = prs.loop.type
          /\ prs.out.name = prs.loop.name
          /\ prs.out.body = prs.loop.body
          /\ prs.out.end = Len(prs.text)
          /\ WordIs(prs.text, Len(prs.text) - Len(CloseOf(prs.loop.type)) + 1,
                    CloseOf(prs.loop.type))

\* A FOR..STEP loop with two objects in its body was rendered in capitals
\* and parsed back
C27_Witness ==
    /\ prs.op = "render"
    /\ prs.loop.type = "ForStep"
    /\ prs.format = "upper"
    /\ Len(prs.loop.body) = 2
    /\ prs.out.type = "ForStep"

-----------------------------------------------------------------------------
(* Properties of the files *)

\* C28: at most one file is open at a time, and when a file that was opened
\* while another file was current is closed, that other file is reopened
\* and is current again, at every nesting depth: as long as no open fails,
\* the file constructed last among those alive is open and is file::current.
C28_EnclosingFileReopened ==
    /\ Cardinality({f \in Files : fs.files[f].valid}) <= 1
    /\ (~fs.failed /\ fs.nest # <<>>)
       => /\ fs.current = fs.nest[Len(fs.nest)]
          /\ fs.files[fs.current].valid

-----------------------------------------------------------------------------
(* Properties of state_name *)

RECURSIVE LastOf(_, _, _)
\* The last position of text, up to i, holding one of the characters cs;
\* 0 when there is none
LastOf(text, i, cs) ==
    IF i = 0 THEN 0
    ELSE IF text[i] \in cs THEN i
    ELSE LastOf(text, i - 1, cs)

\* The base name of a path without its extension
BaseName(path) ==
    LET slash == LastOf(path, Len(path), {"/", "\\"})
        file  == SubSeq(path, slash + 1, Len(path))
        dot   == LastOf(file, Len(file), {"."})
    IN  IF dot = 0 THEN file ELSE SubSeq(file, 1, dot - 1)

\* The path stored names a state file
IsStateFile(path) ==
    LET slash == LastOf(path, Len(path), {"/", "\\"})
    IN  StrStr(SubSeq(path, slash + 1, Len(path)), Ext48S)

\* C30: for any stored state-file path, state_name() writes only within its
\* 16-byte static buffer, the terminating NUL included, and returns a
\* NUL-terminated string holding the base name of the file without its
\* extension, truncated to at most 15 characters.
C30_NameFitsBuffer ==
    (sn.op = "state_name" /\ IsStateFile(sn.path))
    => /\ \A w \in sn.writes : w \in 0..(BufferSize - 1)
       /\ \E i \in 1..BufferSize : sn.buffer[i] = "NUL"
       /\ Len(sn.ret) <= BufferSize - 1
       /\ sn.ret = SubSeq(BaseName(sn.path), 1,
                          Min(Len(BaseName(sn.path)), BufferSize - 1))

-----------------------------------------------------------------------------
(* Properties of the state menu *)

\* The settings under which state files are written
NeutralSettings(st) ==
    st.decimal_mark = "." /\ ~st.fancy_exponent /\ st.standard_exp = 1

C17_FailedLoadKeepsState ==
    sop \in {"load", "merge"} /\ spc = "done" /\ why = "open"
    => /\ sret = "1"
       /\ stack = sys0.stack
       /\ globals = sys0.globals

=============================================================================
